---- MODULE Spec2Model ----
(***************************************************************************)
(* Model of the persistent incremental cache of the wire code generator:   *)
(* the content cache (cache_key.go, cache_store.go), the manifest cache    *)
(* (cache_manifest.go), generateForPackage (generate_package.go) and the   *)
(* Generate facade that drives them.                                       *)
(*                                                                         *)
(* Every Go string and []byte is a sequence of small naturals ("bytes").   *)
(* The byte 0 is the NUL delimiter the hash serialisations write.          *)
(***************************************************************************)
EXTENDS Naturals, Integers, Sequences, FiniteSets, TLC

\* ------------------------------------------------------------------------
\* Bounds of the model
\* ------------------------------------------------------------------------

\* Number of source-tree edits explored in one behaviour.
MaxEdits == 1

\* Number of Generate calls of one behaviour that reach the package loader
\* (a call answered from the manifest changes nothing and is not counted).
MaxLoads == 2

\* Number of steps of one behaviour that run under an injected I/O fault.
MaxFaults == 1

\* Number of temp files os.CreateTemp hands out in one behaviour.
MaxTemps == 2

\* Number of providers the emitted injector under examination calls.
MaxProviders == 3

\* Number of results of the signatures given to funcOutput.
MaxResults == 4

\* Number of statements of the function bodies given to
\* findInjectorBuild.
MaxStmts == 3

\* ------------------------------------------------------------------------
\* Strings, paths and sorting
\* ------------------------------------------------------------------------

\* The NUL delimiter byte, as a one-byte string.
Nul == <<0>>

\* The "." path element that filepath.Clean drops.
DotSeg == <<4>>

\* Source files of the modelled tree: package app (wire.go, extra.go),
\* package dep (dep.go) which app imports, and the module file go.mod.
AppWire == <<1, 1>>
AppExtra == <<1, 2>>
DepFile == <<2, 1>>
GoMod == <<3>>

Paths == {AppWire, AppExtra, DepFile, GoMod}

\* Import paths of the two packages.
PkgApp == <<5, 1>>
PkgDep == <<5, 2>>

\* The working directory every run uses.
Wd == <<6>>

\* File name of the generated file, appended to the output prefix.
WireGen == <<8>>

\* filepath.Clean: drops "." elements; the identity on clean paths.
Clean(p) == SelectSeq(p, LAMBDA b : <<b>> # DotSeg)

\* filepath.Dir: the path without its last element.
Dir(p) == IF Len(p) = 0 THEN p ELSE SubSeq(p, 1, Len(p) - 1)

\* Byte-wise lexicographic order of Go strings (the order of sort.Strings).
RECURSIVE StrLess(_, _)
StrLess(a, b) ==
  IF Len(b) = 0 THEN FALSE
  ELSE IF Len(a) = 0 THEN TRUE
  ELSE IF a[1] # b[1] THEN a[1] < b[1]
  ELSE StrLess(Tail(a), Tail(b))

RECURSIVE InsertSorted(_, _)
InsertSorted(x, s) ==
  IF Len(s) = 0 THEN <<x>>
  ELSE IF StrLess(s[1], x) THEN <<s[1]>> \o InsertSorted(x, Tail(s))
  ELSE <<x>> \o s

\* sort.Strings on a copy of the slice.
RECURSIVE sortedStrings(_)
sortedStrings(values) ==
  IF Len(values) = 0 THEN <<>>
  ELSE InsertSorted(values[1], sortedStrings(Tail(values)))

\* Concatenation of a sequence of strings, each followed by NUL.
RECURSIVE JoinNul(_)
JoinNul(ss) ==
  IF Len(ss) = 0 THEN <<>> ELSE ss[1] \o Nul \o JoinNul(Tail(ss))

\* Range of a sequence.
Range(s) == {s[i] : i \in DOMAIN s}

\* ------------------------------------------------------------------------
\* SHA-256, idealised as a collision-free digest: an injective encoding
\* of the input into a non-empty string without NUL bytes.
\* ------------------------------------------------------------------------

HashMark == <<9>>

Sha256(b) == HashMark \o [i \in 1..Len(b) |-> b[i] + 1]

\* cacheVersion = "wire-cache-v3"
cacheVersion == <<3>>

\* ------------------------------------------------------------------------
\* The source tree: path -> [exists, data, mtime]
\* ------------------------------------------------------------------------

NoFile == [exists |-> FALSE, data |-> <<>>, mtime |-> 0]

FileAt(fs, p) == IF Clean(p) \in DOMAIN fs THEN fs[Clean(p)] ELSE NoFile

\* os.Stat: size and modification time, or an error for a missing file.
osStat(fs, p) ==
  LET f == FileAt(fs, p)
  IN [err |-> ~f.exists, Size |-> Len(f.data), ModTime |-> f.mtime]

\* os.ReadFile of a source file.
ReadSource(fs, p) ==
  LET f == FileAt(fs, p)
  IN [err |-> ~f.exists, data |-> f.data]

\* ------------------------------------------------------------------------
\* cache_key.go
\* ------------------------------------------------------------------------

\* headerHash: "" for an empty header, the digest otherwise.
headerHash(header) == IF Len(header) = 0 THEN <<>> ELSE Sha256(header)

\* buildCacheFiles: stat every file; the first error aborts.
buildCacheFiles(fs, files) ==
  [err |-> \E i \in DOMAIN files : osStat(fs, files[i]).err,
   v |-> [i \in DOMAIN files |->
            [Path |-> Clean(files[i]),
             Size |-> osStat(fs, files[i]).Size,
             ModTime |-> osStat(fs, files[i]).ModTime]]]

\* The bytes hashFiles and contentHashForPaths feed per file:
\* name, NUL, contents, NUL.
RECURSIVE FileStream(_, _)
FileStream(fs, files) ==
  IF Len(files) = 0 THEN <<>>
  ELSE files[1] \o Nul \o ReadSource(fs, files[1]).data \o Nul
       \o FileStream(fs, Tail(files))

\* hashFiles: "" for no files, else the digest of the file stream.
hashFiles(fs, files) ==
  IF Len(files) = 0 THEN [err |-> FALSE, v |-> <<>>]
  ELSE [err |-> \E i \in DOMAIN files : ReadSource(fs, files[i]).err,
        v |-> Sha256(FileStream(fs, files))]

\* contentHashForPaths with the tags left out of the digest.
contentHashForPaths_NoTags(fs, pkgPath, opts, files) ==
  [err |-> \E i \in DOMAIN files : ReadSource(fs, files[i]).err,
   v |-> Sha256(cacheVersion \o Nul \o pkgPath \o Nul
                \o opts.PrefixOutputFile \o Nul \o headerHash(opts.Header)
                \o Nul \o FileStream(fs, files))]

\* contentHashForPaths: digest of version, package path, tags, prefix,
\* header hash and the file stream.
contentHashForPaths(fs, pkgPath, opts, files) ==
  [err |-> \E i \in DOMAIN files : ReadSource(fs, files[i]).err,
   v |-> Sha256(cacheVersion \o Nul \o pkgPath \o Nul \o opts.Tags \o Nul
                \o opts.PrefixOutputFile \o Nul \o headerHash(opts.Header)
                \o Nul \o FileStream(fs, files))]

\* cacheMetaKey: digest of version, package path, tags, prefix, header hash.
cacheMetaKey(pkg, opts) ==
  Sha256(cacheVersion \o Nul \o pkg.PkgPath \o Nul \o opts.Tags \o Nul
         \o opts.PrefixOutputFile \o Nul \o headerHash(opts.Header))

\* ------------------------------------------------------------------------
\* Packages as the loader returns them:
\*   [PkgPath, GoFiles, CompiledGoFiles, Imports (sequence of packages)]
\* ------------------------------------------------------------------------

\* The DFS of packageFiles: pop the last package of the stack, skip it when
\* seen, append its compiled files (else its Go files), push its imports.
RECURSIVE packageFilesWalk(_, _, _)
packageFilesWalk(stack, seen, files) ==
  IF Len(stack) = 0 THEN files
  ELSE LET p == stack[Len(stack)]
           rest == SubSeq(stack, 1, Len(stack) - 1)
       IN IF p.PkgPath \in seen THEN packageFilesWalk(rest, seen, files)
          ELSE packageFilesWalk(
                 rest \o p.Imports,
                 seen \cup {p.PkgPath},
                 files \o (IF Len(p.CompiledGoFiles) > 0
                           THEN p.CompiledGoFiles ELSE p.GoFiles))

\* packageFiles: the transitive Go files of a package graph.
packageFiles(root) == packageFilesWalk(<<root>>, {}, <<>>)

\* rootPackageFiles: the direct Go files of the root package.
rootPackageFiles(pkg) ==
  IF Len(pkg.CompiledGoFiles) > 0 THEN pkg.CompiledGoFiles ELSE pkg.GoFiles

\* cacheMetaMatches with the RootHash comparison left out.
cacheMetaMatches_NoRootHash(fs, meta, pkg, opts, files) ==
  LET current == buildCacheFiles(fs, files)
      rootFiles == rootPackageFiles(pkg)
  IN /\ meta.Version = cacheVersion
     /\ meta.PkgPath = pkg.PkgPath
     /\ meta.Tags = opts.Tags
     /\ meta.Prefix = opts.PrefixOutputFile
     /\ meta.HeaderHash = headerHash(opts.Header)
     /\ Len(meta.Files) = Len(files)
     /\ ~current.err
     /\ \A i \in DOMAIN meta.Files : meta.Files[i] = current.v[i]
     /\ Len(rootFiles) # 0
     /\ meta.RootHash # <<>>
     /\ meta.ContentHash # <<>>

\* cacheMetaMatches: whether stored metadata matches the current inputs.
cacheMetaMatches(fs, meta, pkg, opts, files) ==
  LET current == buildCacheFiles(fs, files)
      rootFiles == rootPackageFiles(pkg)
      rootHash == hashFiles(fs, sortedStrings(rootFiles))
  IN /\ meta.Version = cacheVersion
     /\ meta.PkgPath = pkg.PkgPath
     /\ meta.Tags = opts.Tags
     /\ meta.Prefix = opts.PrefixOutputFile
     /\ meta.HeaderHash = headerHash(opts.Header)
     /\ Len(meta.Files) = Len(files)
     /\ ~current.err
     /\ \A i \in DOMAIN meta.Files : meta.Files[i] = current.v[i]
     /\ Len(rootFiles) # 0
     /\ meta.RootHash # <<>>
     /\ ~rootHash.err
     /\ rootHash.v = meta.RootHash
     /\ meta.ContentHash # <<>>

\* ------------------------------------------------------------------------
\* The cache directory: three maps, one per file kind.
\*   bins      : content hash -> bytes          (<key>.bin)
\*   metas     : meta key     -> cacheMeta      (<key>.json)
\*   manifests : manifest key -> cacheManifest  (<key>.manifest.json)
\* A step runs under one injected I/O fault: "none", "read" (every read of
\* the cache directory fails) or "write" (every write to it fails).
\* ------------------------------------------------------------------------

EmptyMap == [k \in {} |-> <<>>]

Put(map, key, val) == [k \in DOMAIN map \cup {key} |->
                         IF k = key THEN val ELSE map[k]]

\* readCacheMeta: the stored entry, or a miss on any read or decode error.
readCacheMeta(metas, key, fault) ==
  [ok |-> fault # "read" /\ key \in DOMAIN metas,
   v |-> IF key \in DOMAIN metas THEN metas[key] ELSE <<>>]

\* writeCacheMeta that never writes.
writeCacheMeta_Skipped(metas, key, meta, fault) == metas

\* writeCacheMeta: temp file plus rename; any error skips the write.
writeCacheMeta(metas, key, meta, fault) ==
  IF fault = "write" THEN metas ELSE Put(metas, key, meta)

\* cacheKeyForPackage returning an error when the metadata entry cannot
\* be read.
cacheKeyForPackage_MetaReadFails(fs, metas, pkg, opts, fault) ==
  [err |-> fault = "read", key |-> <<>>, metas |-> metas]

\* cacheKeyForPackage: the content hash of a package; trusts a matching
\* metadata entry, otherwise re-hashes and rewrites the entry.
\* Returns [err, key, metas].
cacheKeyForPackage(fs, metas, pkg, opts, fault) ==
  LET files == sortedStrings(packageFiles(pkg))
      metaKey == cacheMetaKey(pkg, opts)
      stored == readCacheMeta(metas, metaKey, fault)
      contentHash == contentHashForPaths(fs, pkg.PkgPath, opts, files)
      rootHash == hashFiles(fs, sortedStrings(rootPackageFiles(pkg)))
      metaFiles == buildCacheFiles(fs, files)
      meta == [Version |-> cacheVersion,
               PkgPath |-> pkg.PkgPath,
               Tags |-> opts.Tags,
               Prefix |-> opts.PrefixOutputFile,
               HeaderHash |-> headerHash(opts.Header),
               Files |-> metaFiles.v,
               ContentHash |-> contentHash.v,
               RootHash |-> rootHash.v]
  IN IF Len(files) = 0 THEN [err |-> FALSE, key |-> <<>>, metas |-> metas]
     ELSE IF stored.ok /\ cacheMetaMatches(fs, stored.v, pkg, opts, files)
     THEN [err |-> FALSE, key |-> stored.v.ContentHash, metas |-> metas]
     ELSE IF contentHash.err \/ rootHash.err \/ metaFiles.err
     THEN [err |-> TRUE, key |-> <<>>, metas |-> metas]
     ELSE [err |-> FALSE, key |-> contentHash.v,
           metas |-> writeCacheMeta(metas, metaKey, meta, fault)]

\* ------------------------------------------------------------------------
\* cache_store.go
\* ------------------------------------------------------------------------

\* readCache: the blob stored under a content hash, or a miss.
readCache(bins, key, fault) ==
  [ok |-> fault # "read" /\ key \in DOMAIN bins,
   v |-> IF key \in DOMAIN bins THEN bins[key] ELSE <<>>]

\* writeCache: temp file plus rename; any error skips the write.
writeCache(bins, key, content, fault) ==
  IF fault = "write" THEN bins ELSE Put(bins, key, content)

\* ------------------------------------------------------------------------
\* generate_package.go: detectOutputDir
\* ------------------------------------------------------------------------

\* detectOutputDir: the directory all paths share, else an error.
detectOutputDir(paths) ==
  IF Len(paths) = 0 THEN [err |-> TRUE, v |-> <<>>]
  ELSE [err |-> \E i \in DOMAIN paths : Dir(paths[i]) # Dir(paths[1]),
        v |-> Dir(paths[1])]

\* filepath.Join(outDir, prefix + "wire_gen.go")
OutputPathFor(outDir, opts) == outDir \o opts.PrefixOutputFile \o WireGen

\* ------------------------------------------------------------------------
\* cache_manifest.go
\* ------------------------------------------------------------------------

\* envHash hashing the entries in the order given.
envHash_Unsorted(env) ==
  IF Len(env) = 0 THEN <<>> ELSE Sha256(JoinNul(env))

\* envHash: "" for an empty environment, else the digest of the sorted list.
envHash(env) ==
  IF Len(env) = 0 THEN <<>> ELSE Sha256(JoinNul(sortedStrings(env)))

\* manifestKey: digest of version, working directory, env hash, tags,
\* prefix, header hash and the sorted patterns.
manifestKey(wd, env, patterns, opts) ==
  Sha256(cacheVersion \o Nul \o Clean(wd) \o Nul \o envHash(env) \o Nul
         \o opts.Tags \o Nul \o opts.PrefixOutputFile \o Nul
         \o headerHash(opts.Header) \o Nul
         \o JoinNul(sortedStrings(patterns)))

\* manifestKeyFromManifest: the same key rebuilt from the stored fields.
manifestKeyFromManifest(manifest) ==
  Sha256(cacheVersion \o Nul \o Clean(manifest.WD) \o Nul
         \o manifest.EnvHash \o Nul \o manifest.Tags \o Nul
         \o manifest.Prefix \o Nul \o manifest.HeaderHash \o Nul
         \o JoinNul(sortedStrings(manifest.Patterns)))

\* buildCacheFilesFromMeta: re-stat the stored files.
buildCacheFilesFromMeta(fs, files) ==
  [err |-> \E i \in DOMAIN files : osStat(fs, files[i].Path).err,
   v |-> [i \in DOMAIN files |->
            [Path |-> Clean(files[i].Path),
             Size |-> osStat(fs, files[i].Path).Size,
             ModTime |-> osStat(fs, files[i].Path).ModTime]]]

\* Whether a stored file list equals its re-stat, entry by entry.
FilesMatch(fs, files) ==
  LET current == buildCacheFilesFromMeta(fs, files)
  IN /\ ~current.err
     /\ Len(current.v) = Len(files)
     /\ \A i \in DOMAIN files : files[i] = current.v[i]

\* The paths of a stored file list.
PathsOf(files) == [i \in DOMAIN files |-> files[i].Path]

\* The per-package part of manifestValid with the root hash computed over
\* all the files of the package.
manifestPackageValid_HashAllFiles(fs, pkg) ==
  LET rootHash == hashFiles(fs, sortedStrings(PathsOf(pkg.Files)))
  IN /\ pkg.ContentHash # <<>>
     /\ Len(pkg.RootFiles) # 0
     /\ pkg.RootHash # <<>>
     /\ FilesMatch(fs, pkg.Files)
     /\ FilesMatch(fs, pkg.RootFiles)
     /\ ~rootHash.err
     /\ rootHash.v = pkg.RootHash

\* The per-package part of manifestValid.
manifestPackageValid(fs, pkg) ==
  LET rootHash == hashFiles(fs, sortedStrings(PathsOf(pkg.RootFiles)))
  IN /\ pkg.ContentHash # <<>>
     /\ Len(pkg.RootFiles) # 0
     /\ pkg.RootHash # <<>>
     /\ FilesMatch(fs, pkg.Files)
     /\ FilesMatch(fs, pkg.RootFiles)
     /\ ~rootHash.err
     /\ rootHash.v = pkg.RootHash

\* manifestValid without the root-hash recomputation.
manifestValid_NoRootHash(fs, manifest) ==
  /\ manifest.Version = cacheVersion
  /\ manifest.EnvHash # <<>>
  /\ Len(manifest.Packages) # 0
  /\ (Len(manifest.ExtraFiles) > 0 => FilesMatch(fs, manifest.ExtraFiles))
  /\ \A i \in DOMAIN manifest.Packages :
       LET pkg == manifest.Packages[i]
       IN /\ pkg.ContentHash # <<>>
          /\ Len(pkg.RootFiles) # 0
          /\ pkg.RootHash # <<>>
          /\ FilesMatch(fs, pkg.Files)
          /\ FilesMatch(fs, pkg.RootFiles)

\* manifestValid without the ExtraFiles comparison.
manifestValid_NoExtra(fs, manifest) ==
  /\ manifest.Version = cacheVersion
  /\ manifest.EnvHash # <<>>
  /\ Len(manifest.Packages) # 0
  /\ \A i \in DOMAIN manifest.Packages :
       manifestPackageValid(fs, manifest.Packages[i])

\* manifestValid: whether the manifest still matches the current inputs.
manifestValid(fs, manifest) ==
  /\ manifest.Version = cacheVersion
  /\ manifest.EnvHash # <<>>
  /\ Len(manifest.Packages) # 0
  /\ (Len(manifest.ExtraFiles) > 0 => FilesMatch(fs, manifest.ExtraFiles))
  /\ \A i \in DOMAIN manifest.Packages :
       manifestPackageValid(fs, manifest.Packages[i])

\* extraCachePaths: go.work, go.work.sum, go.mod and go.sum of the working
\* directory and of every ancestor, those that exist.  In the modelled
\* tree only the go.mod of the module root can exist.
extraCachePaths(fs, wd) ==
  SelectSeq(<<GoMod>>, LAMBDA p : ~osStat(fs, p).err)

\* extraCacheFiles: the metadata of those files, sorted by path.
extraCacheFiles(fs, wd) ==
  LET paths == sortedStrings(extraCachePaths(fs, wd))
  IN [i \in DOMAIN paths |->
        [Path |-> Clean(paths[i]),
         Size |-> osStat(fs, paths[i]).Size,
         ModTime |-> osStat(fs, paths[i]).ModTime]]

\* readManifest: the stored manifest, or a miss on a read or decode error.
readManifest(manifests, key, fault) ==
  [ok |-> fault # "read" /\ key \in DOMAIN manifests,
   v |-> IF key \in DOMAIN manifests THEN manifests[key] ELSE <<>>]

\* writeManifestFile: temp file plus rename; any error skips the write.
writeManifestFile(manifests, key, manifest, fault) ==
  IF fault = "write" THEN manifests ELSE Put(manifests, key, manifest)

\* readManifestResults: one result per manifest package, read from the
\* content store; a miss when the manifest is absent or invalid or a blob
\* is missing.
readManifestResults(fs, bins, manifests, wd, env, patterns, opts, fault) ==
  LET stored == readManifest(manifests, manifestKey(wd, env, patterns, opts),
                             fault)
  IN IF ~stored.ok THEN [ok |-> FALSE, results |-> <<>>]
     ELSE IF ~manifestValid(fs, stored.v)
     THEN [ok |-> FALSE, results |-> <<>>]
     ELSE IF \E i \in DOMAIN stored.v.Packages :
               ~readCache(bins, stored.v.Packages[i].ContentHash, fault).ok
     THEN [ok |-> FALSE, results |-> <<>>]
     ELSE [ok |-> TRUE,
           results |-> [i \in DOMAIN stored.v.Packages |->
             [PkgPath |-> stored.v.Packages[i].PkgPath,
              OutputPath |-> stored.v.Packages[i].OutputPath,
              Content |-> readCache(bins, stored.v.Packages[i].ContentHash,
                                    fault).v,
              Errs |-> FALSE]]]

\* The loop of writeManifest: one manifestPackage per package whose key,
\* output directory, metadata and root hash can be computed.
\* Returns [metas, packages].
RECURSIVE writeManifestPackages(_, _, _, _, _, _)
writeManifestPackages(fs, metas, opts, pkgs, fault, acc) ==
  IF Len(pkgs) = 0 THEN [metas |-> metas, packages |-> acc]
  ELSE
    LET pkg == pkgs[1]
        files == sortedStrings(packageFiles(pkg))
        ck == cacheKeyForPackage(fs, metas, pkg, opts, fault)
        outDir == detectOutputDir(pkg.GoFiles)
        metaFiles == buildCacheFiles(fs, files)
        rootFiles == sortedStrings(rootPackageFiles(pkg))
        rootMeta == buildCacheFiles(fs, rootFiles)
        rootHash == hashFiles(fs, rootFiles)
        entry == [PkgPath |-> pkg.PkgPath,
                  OutputPath |-> OutputPathFor(outDir.v, opts),
                  Files |-> metaFiles.v,
                  ContentHash |-> ck.key,
                  RootFiles |-> rootMeta.v,
                  RootHash |-> rootHash.v]
    IN IF Len(files) = 0
       THEN writeManifestPackages(fs, metas, opts, Tail(pkgs), fault, acc)
       ELSE IF \/ ck.err \/ ck.key = <<>> \/ outDir.err
               \/ metaFiles.err \/ rootMeta.err \/ rootHash.err
       THEN writeManifestPackages(fs, ck.metas, opts, Tail(pkgs), fault, acc)
       ELSE writeManifestPackages(fs, ck.metas, opts, Tail(pkgs), fault,
                                  Append(acc, entry))

\* writeManifest: persist the manifest of a successful run.
\* Returns [metas, manifests].
writeManifest(fs, metas, manifests, wd, env, patterns, opts, pkgs, fault) ==
  LET built == writeManifestPackages(fs, metas, opts, pkgs, fault, <<>>)
      manifest == [Version |-> cacheVersion,
                   WD |-> wd,
                   Tags |-> opts.Tags,
                   Prefix |-> opts.PrefixOutputFile,
                   HeaderHash |-> headerHash(opts.Header),
                   EnvHash |-> envHash(env),
                   Patterns |-> sortedStrings(patterns),
                   Packages |-> built.packages,
                   ExtraFiles |-> extraCacheFiles(fs, wd)]
  IN IF Len(pkgs) = 0 THEN [metas |-> metas, manifests |-> manifests]
     ELSE [metas |-> built.metas,
           manifests |-> writeManifestFile(
                           manifests, manifestKey(wd, env, patterns, opts),
                           manifest, fault)]

\* ------------------------------------------------------------------------
\* The collaborators of the facade: the package loader, the injector
\* generator and the pretty-printer.
\* ------------------------------------------------------------------------

\* Patterns "./app" and "./...".
PatApp == <<7, 1>>
PatAll == <<7, 2>>

\* The files of a directory that exist, in name order.
ExistingFiles(fs, candidates) ==
  SelectSeq(candidates, LAMBDA p : FileAt(fs, p).exists)

\* Package dep as loaded: its files, no imports.
LoadedDep(fs) ==
  [PkgPath |-> PkgDep,
   GoFiles |-> ExistingFiles(fs, <<DepFile>>),
   CompiledGoFiles |-> ExistingFiles(fs, <<DepFile>>),
   Imports |-> <<>>]

\* Package app as loaded: its files, importing dep.
LoadedApp(fs) ==
  [PkgPath |-> PkgApp,
   GoFiles |-> ExistingFiles(fs, <<AppWire, AppExtra>>),
   CompiledGoFiles |-> ExistingFiles(fs, <<AppWire, AppExtra>>),
   Imports |-> <<LoadedDep(fs)>>]

\* load: the packages matching the patterns; an error when a matched
\* package or one of its imports has no Go files.
load(fs, wd, env, tags, patterns) ==
  LET wantAll == PatAll \in Range(patterns)
      wantApp == wantAll \/ PatApp \in Range(patterns)
  IN [err |-> \/ Len(LoadedDep(fs).GoFiles) = 0
              \/ (wantApp /\ Len(LoadedApp(fs).GoFiles) = 0),
      pkgs |-> IF wantAll THEN <<LoadedApp(fs), LoadedDep(fs)>>
               ELSE IF wantApp THEN <<LoadedApp(fs)>>
               ELSE <<>>]

\* First byte of a source file that declares an injector stub.
InjectorByte == <<1>>

\* First byte of the generated-code marker line.
GenMark == <<8>>

\* A header the pretty-printer rejects.
BadHeader == <<6>>

\* Whether a root file of the package declares an injector.
HasInjector(fs, pkg) ==
  \E i \in DOMAIN rootPackageFiles(pkg) :
    LET d == ReadSource(fs, rootPackageFiles(pkg)[i]).data
    IN Len(d) > 0 /\ <<d[1]>> = InjectorByte

\* generateInjectors, copyNonInjectorDecls and frame: the source emitted
\* for a package; empty when the package has no injector.  The output is
\* a function of the build tags and of every transitive source file.
frame(fs, pkg, opts) ==
  IF ~HasInjector(fs, pkg) THEN <<>>
  ELSE GenMark \o opts.Tags \o Nul \o pkg.PkgPath \o Nul
       \o FileStream(fs, sortedStrings(packageFiles(pkg)))

\* format.Source: rejects a source that opens with the bad header, and
\* otherwise drops the "." bytes (its normalisation).
formatSource(src) ==
  [err |-> Len(src) > 0 /\ <<src[1]>> = BadHeader,
   v |-> Clean(src)]

\* Generation that puts the header after the emitted source.
uncachedGenerate_HeaderLast(fs, pkg, opts) ==
  [Errs |-> formatSource(frame(fs, pkg, opts) \o opts.Header).err,
   Content |-> IF formatSource(frame(fs, pkg, opts) \o opts.Header).err
               THEN frame(fs, pkg, opts) \o opts.Header
               ELSE formatSource(frame(fs, pkg, opts) \o opts.Header).v]

\* What generation without any cache returns for a package:
\* [Errs, Content].
uncachedGenerate(fs, pkg, opts) ==
  LET goSrc == IF Len(opts.Header) > 0 THEN opts.Header \o frame(fs, pkg, opts)
               ELSE frame(fs, pkg, opts)
      fmt == formatSource(goSrc)
  IN [Errs |-> fmt.err, Content |-> IF fmt.err THEN goSrc ELSE fmt.v]

\* generateForPackage storing the content whether or not it has errors.
generateForPackage_CacheFailed(fs, bins, metas, pkg, opts, fault) ==
  LET outDir == detectOutputDir(pkg.GoFiles)
      ck == cacheKeyForPackage(fs, metas, pkg, opts, fault)
      cached == readCache(bins, ck.key, fault)
      gen == uncachedGenerate(fs, pkg, opts)
      base == [PkgPath |-> pkg.PkgPath, OutputPath |-> <<>>,
               Content |-> <<>>, Errs |-> FALSE]
      path == OutputPathFor(outDir.v, opts)
  IN IF outDir.err
     THEN [res |-> [base EXCEPT !.Errs = TRUE],
           bins |-> bins, metas |-> metas, hit |-> FALSE]
     ELSE IF ck.err
     THEN [res |-> [base EXCEPT !.OutputPath = path, !.Errs = TRUE],
           bins |-> bins, metas |-> ck.metas, hit |-> FALSE]
     ELSE IF ck.key # <<>> /\ cached.ok
     THEN [res |-> [base EXCEPT !.OutputPath = path, !.Content = cached.v],
           bins |-> bins, metas |-> ck.metas, hit |-> TRUE]
     ELSE [res |-> [base EXCEPT !.OutputPath = path,
                                !.Content = gen.Content,
                                !.Errs = gen.Errs],
           bins |-> IF ck.key # <<>>
                    THEN writeCache(bins, ck.key, gen.Content, fault)
                    ELSE bins,
           metas |-> ck.metas, hit |-> FALSE]

\* ------------------------------------------------------------------------
\* generate_package.go: generateForPackage
\* Returns [res, bins, metas, hit]; hit tells a content-cache hit.
\* ------------------------------------------------------------------------

generateForPackage(fs, bins, metas, pkg, opts, fault) ==
  LET outDir == detectOutputDir(pkg.GoFiles)
      ck == cacheKeyForPackage(fs, metas, pkg, opts, fault)
      cached == readCache(bins, ck.key, fault)
      gen == uncachedGenerate(fs, pkg, opts)
      base == [PkgPath |-> pkg.PkgPath, OutputPath |-> <<>>,
               Content |-> <<>>, Errs |-> FALSE]
      path == OutputPathFor(outDir.v, opts)
  IN IF outDir.err
     THEN [res |-> [base EXCEPT !.Errs = TRUE],
           bins |-> bins, metas |-> metas, hit |-> FALSE]
     ELSE IF ck.err
     THEN [res |-> [base EXCEPT !.OutputPath = path, !.Errs = TRUE],
           bins |-> bins, metas |-> ck.metas, hit |-> FALSE]
     ELSE IF ck.key # <<>> /\ cached.ok
     THEN [res |-> [base EXCEPT !.OutputPath = path, !.Content = cached.v],
           bins |-> bins, metas |-> ck.metas, hit |-> TRUE]
     ELSE [res |-> [base EXCEPT !.OutputPath = path,
                                !.Content = gen.Content,
                                !.Errs = gen.Errs],
           bins |-> IF ck.key # <<>> /\ ~gen.Errs
                    THEN writeCache(bins, ck.key, gen.Content, fault)
                    ELSE bins,
           metas |-> ck.metas, hit |-> FALSE]

\* allGeneratedOK: at least one result and no result with errors.
allGeneratedOK(results) ==
  /\ Len(results) # 0
  /\ \A i \in DOMAIN results : ~results[i].Errs

\* ------------------------------------------------------------------------
\* serve.go: one tick of Serve that finds changed files owned by packages
\* of its manifest and regenerates those packages one by one.
\* ------------------------------------------------------------------------

\* The zero manifestPackage.
EmptyManifestPackage ==
  [PkgPath |-> <<>>, OutputPath |-> <<>>, Files |-> <<>>,
   ContentHash |-> <<>>, RootFiles |-> <<>>, RootHash |-> <<>>]

\* The files serveStateFromManifest puts under watch: those of every
\* package, then the extra files.
RECURSIVE WatchedOf(_)
WatchedOf(packages) ==
  IF Len(packages) = 0 THEN <<>>
  ELSE packages[1].Files \o WatchedOf(Tail(packages))

WatchedFiles(manifest) == WatchedOf(manifest.Packages) \o manifest.ExtraFiles

\* watchState.changed: one path that cannot be stat'ed, if there is one;
\* else the paths whose size or modification time differs.  Each element
\* is a list the call may return.
changed(tree, watched) ==
  LET failing == {i \in DOMAIN watched : osStat(tree, watched[i].Path).err}
      differs(f) == \/ osStat(tree, f.Path).Size # f.Size
                    \/ osStat(tree, f.Path).ModTime # f.ModTime
  IN IF failing # {} THEN {<<watched[i].Path>> : i \in failing}
     ELSE {sortedStrings(PathsOf(SelectSeq(watched, differs)))}

\* fileToPkg as serveStateFromManifest fills it: the last package of the
\* manifest that lists the file; "" when none does.
fileToPkg(manifest, path) ==
  LET owners == {i \in DOMAIN manifest.Packages :
                   \E j \in DOMAIN manifest.Packages[i].Files :
                     Clean(manifest.Packages[i].Files[j].Path) = Clean(path)}
  IN IF owners = {} THEN <<>>
     ELSE manifest.Packages[CHOOSE i \in owners :
                              \A k \in owners : k <= i].PkgPath

\* packagesForFiles: the owners of the files, each once, in order.
RECURSIVE packagesForFiles(_, _, _)
packagesForFiles(manifest, files, acc) ==
  IF Len(files) = 0 THEN acc
  ELSE LET owner == fileToPkg(manifest, files[1])
       IN packagesForFiles(
            manifest, Tail(files),
            IF owner = <<>> \/ owner \in Range(acc) THEN acc
            ELSE Append(acc, owner))

\* lazyLoader.load: the package of that path with its imports.
lazyLoad(tree, pkgPath) ==
  LET pkg == IF pkgPath = PkgApp THEN LoadedApp(tree) ELSE LoadedDep(tree)
  IN [err |-> \/ pkgPath \notin {PkgApp, PkgDep}
              \/ Len(pkg.GoFiles) = 0
              \/ Len(LoadedDep(tree).GoFiles) = 0,
      pkgs |-> <<pkg>>]

\* tryCachedWrite: rehash the files the manifest lists for the package
\* and, when the content store has that blob, write it out and update the
\* manifest entry.  Returns [ok, err, meta, content]; content is what
\* os.WriteFile puts at the entry's OutputPath.
tryCachedWrite(tree, bins, manifest, pkgPath, opts, fault) ==
  LET found == SelectSeq(manifest.Packages, LAMBDA e : e.PkgPath = pkgPath)
      files == sortedStrings([i \in DOMAIN found[1].Files |->
                                Clean(found[1].Files[i].Path)])
      contentHash == contentHashForPaths(tree, found[1].PkgPath, opts, files)
      cached == readCache(bins, contentHash.v, fault)
      metaFiles == buildCacheFiles(tree, files)
      none == [ok |-> FALSE, err |-> FALSE, meta |-> EmptyManifestPackage,
               content |-> <<>>]
  IN IF Len(found) = 0 THEN none
     ELSE IF contentHash.err THEN [none EXCEPT !.err = TRUE]
     ELSE IF ~cached.ok THEN none
     ELSE IF metaFiles.err THEN [none EXCEPT !.err = TRUE]
     ELSE [ok |-> TRUE, err |-> FALSE,
           meta |-> [found[1] EXCEPT !.Files = metaFiles.v,
                                     !.ContentHash = contentHash.v],
           content |-> cached.v]

\* manifestPackageFromLoaded: the manifest entry of a loaded package; it
\* has no root files and no root hash.  Returns [err, meta, metas].
manifestPackageFromLoaded(tree, metas, pkg, opts, fault) ==
  LET files == sortedStrings(packageFiles(pkg))
      metaFiles == buildCacheFiles(tree, files)
      ck == cacheKeyForPackage(tree, metas, pkg, opts, fault)
      outDir == detectOutputDir(pkg.GoFiles)
      failed(m) == [err |-> TRUE, meta |-> EmptyManifestPackage, metas |-> m]
  IN IF Len(files) = 0 \/ metaFiles.err THEN failed(metas)
     ELSE IF ck.err THEN failed(ck.metas)
     ELSE IF ck.key = <<>>
     THEN [err |-> FALSE, meta |-> EmptyManifestPackage, metas |-> ck.metas]
     ELSE IF outDir.err THEN failed(ck.metas)
     ELSE [err |-> FALSE,
           meta |-> [EmptyManifestPackage EXCEPT
                       !.PkgPath = pkg.PkgPath,
                       !.OutputPath = OutputPathFor(outDir.v, opts),
                       !.Files = metaFiles.v,
                       !.ContentHash = ck.key],
           metas |-> ck.metas]

\* GenerateResult.Commit: write Content to OutputPath.
Commit(files, res) == Put(files, res.OutputPath, res.Content)

\* generateAndCommitPackage: load and generate the package; with empty
\* content return the zero entry and no error; else commit the result
\* and build the manifest entry.
\* Returns [err, meta, bins, metas, committed]; committed holds the
\* result that was committed, if one was.
generateAndCommitPackage(tree, bins, metas, pkgPath, opts, fault) ==
  LET l == lazyLoad(tree, pkgPath)
      g == generateForPackage(tree, bins, metas, l.pkgs[1], opts, fault)
      from == manifestPackageFromLoaded(tree, g.metas, l.pkgs[1], opts, fault)
  IN IF l.err
     THEN [err |-> TRUE, meta |-> EmptyManifestPackage,
           bins |-> bins, metas |-> metas, committed |-> <<>>]
     ELSE IF g.res.Errs
     THEN [err |-> TRUE, meta |-> EmptyManifestPackage,
           bins |-> g.bins, metas |-> g.metas, committed |-> <<>>]
     ELSE IF Len(g.res.Content) = 0
     THEN [err |-> FALSE, meta |-> EmptyManifestPackage,
           bins |-> g.bins, metas |-> g.metas, committed |-> <<>>]
     ELSE [err |-> from.err, meta |-> from.meta,
           bins |-> g.bins, metas |-> from.metas, committed |-> <<g.res>>]

\* updateManifestPackage, the in-memory part: replace the entry with the
\* same package path, else append.
updateManifestPackage(manifest, meta) ==
  LET same == {i \in DOMAIN manifest.Packages :
                 manifest.Packages[i].PkgPath = meta.PkgPath}
  IN IF same # {}
     THEN [manifest EXCEPT
             !.Packages[CHOOSE i \in same : \A k \in same : i <= k] = meta]
     ELSE [manifest EXCEPT !.Packages = Append(@, meta)]

\* ------------------------------------------------------------------------
\* cmd/wire: the gen, watch and diff commands, and serve.go
\* generateAndCommit: what they do with the results of Generate.
\* files is the output files on disk, errs whether Generate returned
\* errors, outs its results.
\* ------------------------------------------------------------------------

\* subcommands.ExitSuccess, subcommands.ExitFailure, and the two
\* statuses diffCmd.Execute declares.
ExitSuccess == 0
ExitFailure == 1
errReturn == 2
diffReturn == 1

\* What can fail in a command before it calls Generate.
Stages == {"profile", "wd", "header"}

\* The loop of genCmd.Execute and of runGenerate over the results: log
\* the errors of a result, skip one without content, commit the others;
\* commitOK tells whether the writes succeed.  Returns [files, success].
RECURSIVE commitResults(_, _, _)
commitResults(outs, files, commitOK) ==
  IF Len(outs) = 0 THEN [files |-> files, success |-> TRUE]
  ELSE LET o == Head(outs)
           skip == Len(o.Content) = 0
           now == IF skip \/ ~commitOK THEN files ELSE Commit(files, o)
           rest == commitResults(Tail(outs), now, commitOK)
       IN [files |-> rest.files,
           success |-> rest.success /\ ~o.Errs /\ (skip \/ commitOK)]

\* genCmd.Execute; stage is what failed before Generate, or "none".
\* Returns [exit, files].
genExecute(stage, errs, outs, files, commitOK) ==
  IF stage # "none" \/ errs THEN [exit |-> ExitFailure, files |-> files]
  ELSE IF Len(outs) = 0 THEN [exit |-> ExitSuccess, files |-> files]
  ELSE [exit |-> IF commitResults(outs, files, commitOK).success
                 THEN ExitSuccess ELSE ExitFailure,
        files |-> commitResults(outs, files, commitOK).files]

\* The watch command's runGenerate; it returns nothing, exit tells
\* whether it logged a failure.  Returns [exit, files].
runGenerate(errs, outs, files, commitOK) ==
  IF errs THEN [exit |-> ExitFailure, files |-> files]
  ELSE IF Len(outs) = 0 THEN [exit |-> ExitSuccess, files |-> files]
  ELSE [exit |-> IF commitResults(outs, files, commitOK).success
                 THEN ExitSuccess ELSE ExitFailure,
        files |-> commitResults(outs, files, commitOK).files]

\* The loop of generateAndCommit: return at the first result with
\* errors or the first failed write.  Returns [err, files].
RECURSIVE commitUntilError(_, _, _)
commitUntilError(outs, files, commitOK) ==
  IF Len(outs) = 0 THEN [err |-> FALSE, files |-> files]
  ELSE IF Head(outs).Errs THEN [err |-> TRUE, files |-> files]
  ELSE IF Len(Head(outs).Content) = 0
  THEN commitUntilError(Tail(outs), files, commitOK)
  ELSE IF ~commitOK THEN [err |-> TRUE, files |-> files]
  ELSE commitUntilError(Tail(outs), Commit(files, Head(outs)), commitOK)

\* generateAndCommit; exit tells whether it returned an error.
\* Returns [exit, files].
generateAndCommit(errs, outs, files, commitOK) ==
  IF errs THEN [exit |-> ExitFailure, files |-> files]
  ELSE [exit |-> IF commitUntilError(outs, files, commitOK).err
                 THEN ExitFailure ELSE ExitSuccess,
        files |-> commitUntilError(outs, files, commitOK).files]

\* ioutil.ReadFile(out.OutputPath) with the error dropped: the file, or
\* nothing when it cannot be read.
CurrentFile(files, path) == IF path \in DOMAIN files THEN files[path] ELSE <<>>

\* diffCmd.Execute; diffOK tells whether the unified diffs can be
\* computed.  The diff of two texts is empty exactly when they are
\* equal.  Returns [exit, files]; the command writes no file.
diffExecute(stage, errs, outs, files, diffOK) ==
  LET withContent == {i \in DOMAIN outs : Len(outs[i].Content) > 0}
      success == /\ \A i \in DOMAIN outs : ~outs[i].Errs
                 /\ withContent # {} => diffOK
      hadDiff == /\ diffOK
                 /\ \E i \in withContent :
                      CurrentFile(files, outs[i].OutputPath) # outs[i].Content
  IN [exit |-> IF stage \in {"profile", "wd"} THEN errReturn
               ELSE IF stage = "header" THEN ExitFailure
               ELSE IF errs THEN errReturn
               ELSE IF Len(outs) = 0 THEN ExitSuccess
               ELSE IF ~success THEN errReturn
               ELSE IF hadDiff THEN diffReturn
               ELSE ExitSuccess,
      files |-> files]

\* The command of that name run on what Generate returned.
Execute(cmd, stage, errs, outs, files, ioOK) ==
  IF cmd = "gen" THEN genExecute(stage, errs, outs, files, ioOK)
  ELSE IF cmd = "watch" THEN runGenerate(errs, outs, files, ioOK)
  ELSE IF cmd = "serve" THEN generateAndCommit(errs, outs, files, ioOK)
  ELSE diffExecute(stage, errs, outs, files, ioOK)

\* ------------------------------------------------------------------------
\* State
\* ------------------------------------------------------------------------

VARIABLES
  fs,         \* the source tree: path -> [exists, data, mtime]
  edits,      \* number of edits made so far; it is the file-system
              \* clock: a write stamps the file with the time after it
  bins,       \* cache directory: <hash>.bin files
  metas,      \* cache directory: <key>.json files
  manifests,  \* cache directory: <key>.manifest.json files
  gen,        \* the Generate call or Serve tick in flight:
              \* [pc, params, pkgs, results, manifest]
  out,        \* what the last finished Generate call returned
  loads,      \* number of loader invocations so far
  prev,       \* history: the last call finished since the last change:
              \* [valid, params, results]; valid when it succeeded for
              \* every package
  snaps,      \* history: manifest key -> source tree when it was written
  faults,     \* number of steps that ran under an injected fault
  disk,       \* cache directory as bytes: file name -> contents, for
              \* the writers taken step by step
  writers,    \* the calls of writeCache, writeCacheMeta and
              \* writeManifestFile in flight, one per process
  temps,      \* number of temp files created so far
  renames,    \* history: destination -> who renamed onto it, and the
              \* bytes the last of them was given to write
  outputs,    \* the generated files on disk: OutputPath -> bytes
  last,       \* history: the last command that returned: [cmd, stage,
              \* exit, errs, outs, ioOK, before, after]; errs and outs
              \* are what Generate gave it, before and after the output
              \* files before and after it
  call,       \* a function or an emitted injector examined on its own:
              \* its inputs, its position and what it has returned
  serve,      \* the call of Serve: [pc, params, hasState, fromManifest,
              \* manifest, watch, retry, cancelled, result, exit, failed,
              \* tick]; failed and tick are history: whether an attempt
              \* or a state rebuild has failed, and what the last tick saw
              \* and did
  watch       \* the watch command: [pc, mode, prefix, state, events,
              \* changed, after, started, trigger, runs, stamps]; started,
              \* trigger and runs are history: the tree at the start of
              \* the last runGenerate, what set it off, and how many ran

vars == <<fs, edits, bins, metas, manifests, gen, out, loads, prev,
          snaps, faults, disk, writers, temps, renames, outputs, last,
          call, serve, watch>>

\* The variables of the commands that write the generated files.
cmdVars == <<outputs, last, serve>>

\* The variables of the step-by-step writers, and the call examined on
\* its own, which no step of the commands touches.
storeVars == <<disk, writers, temps, renames, call, watch>>

\* Every variable but the call examined on its own.
programVars == <<fs, edits, bins, metas, manifests, gen, out, loads, prev,
                 snaps, faults, disk, writers, temps, renames, outputs,
                 last, serve, watch>>

\* The variables of the Generate facade and its cache.
genVars == <<fs, edits, bins, metas, manifests, gen, out, loads, prev,
             snaps, faults, outputs, last, call, serve, watch>>

\* The processes that write to the cache directory at the same time.
Procs == {1, 2}

\* The key the writers contend for, and the bytes each process is given
\* to write.
StoreKey == <<1>>
BlobOf(w) == IF w = 1 THEN <<1, 2>> ELSE <<2, 1>>
Blobs == {BlobOf(w) : w \in Procs}

\* cachePath, cacheMetaPath, cacheManifestPath: the destination files.
cachePath(key) == <<"bin", key>>
cacheMetaPath(key) == <<"json", key>>
cacheManifestPath(key) == <<"manifest.json", key>>

Kinds == {"bin", "json", "manifest.json"}
Dests == {cachePath(StoreKey), cacheMetaPath(StoreKey),
          cacheManifestPath(StoreKey)}

\* A temp file named after the key alone.
TempName_Fixed(kind, key, n) == <<kind, key, 0>>

\* os.CreateTemp(dir, key+".tmp-"), key+".meta-", key+".manifest-": a
\* name no other file has; n counts the temp files created.
TempName(kind, key, n) == <<kind, key, n>>

\* cacheDir: the cache directory, as an entry of the disk.
cacheDir == <<"wire-cache">>

\* History of a destination nothing was renamed onto since the cache was
\* last cleared: the processes that renamed onto it, the last of them,
\* and the bytes it was given to write; cleared tells whether the last
\* ClearCache removed the destination.
NoRename == [by |-> {}, last |-> 0, data |-> <<>>, cleared |-> FALSE]

\* A process that is not writing.  existed is history: whether the
\* destination was there when the call began.
IdleWriter == [pc |-> "idle", kind |-> "", data |-> <<>>, tmp |-> <<>>,
               writeErr |-> FALSE, existed |-> FALSE]

\* Contents an edit gives a source file: an injector stub and a file of
\* the same size without one.
FileData == {<<1>>, <<2>>}

\* One environment entry.
EnvA == <<7, 3>>

\* GenerateOptions of the runs.
DefaultOpts == [Tags |-> <<>>, PrefixOutputFile |-> <<>>, Header |-> <<>>]

\* The (env, patterns, opts) a Generate call is made with.
RunParams ==
  {[env |-> <<EnvA>>, patterns |-> <<PatAll>>, opts |-> DefaultOpts],
   [env |-> <<>>, patterns |-> <<PatApp>>, opts |-> DefaultOpts]}

\* The injected I/O fault of a step.
Faults == {"none", "read", "write"}

Idle == [pc |-> "idle", params |-> <<>>, pkgs |-> <<>>, results |-> <<>>,
         manifest |-> <<>>]

NoOut == [kind |-> "none", params |-> <<>>, results |-> <<>>,
          served |-> <<>>, expect |-> <<>>, afterOK |-> FALSE,
          loaded |-> FALSE, again |-> FALSE, before |-> <<>>]

NoPrev == [valid |-> FALSE, params |-> <<>>, results |-> <<>>]

\* The last tick of Serve: the changed files the watch reported, whether it
\* reported an unknown change, what the tick did ("none", "full" for
\* generateAndCommit, "packages" for the loop over the owning packages),
\* and for that loop the packages handled so far and how.
NoTick == [changed |-> <<>>, unknown |-> FALSE, plan |-> "none",
           owners |-> <<>>, attempt |-> "none", done |-> <<>>]

\* Serve has not been called.  cancelled is the cause the context was
\* cancelled with, result the error Serve returned; watchNil tells that
\* the watch of the state is nil.
NoServe == [pc |-> "off", params |-> <<>>, hasState |-> FALSE,
            fromManifest |-> FALSE, manifest |-> <<>>, watch |-> <<>>,
            watchNil |-> FALSE, retry |-> FALSE, cancelled |-> "", result |-> "", exit |-> 0,
            failed |-> FALSE, tick |-> NoTick]

\* The watch command before it is run.
NoWatch == [pc |-> "off", mode |-> "", prefix |-> <<>>, state |-> <<>>,
            events |-> {}, changed |-> {}, after |-> "", started |-> <<>>,
            trigger |-> {}, runs |-> 0, stamps |-> <<>>]

\* No function is examined on its own.
NoCall == [fn |-> "none"]

\* No command has returned yet.
NoCmd == [cmd |-> "", stage |-> "none", exit |-> 0, errs |-> FALSE,
          outs |-> <<>>, ioOK |-> TRUE, before |-> EmptyMap,
          after |-> EmptyMap]

InitFs ==
  [p \in Paths |->
     IF p = AppExtra THEN NoFile
     ELSE IF p = DepFile THEN [exists |-> TRUE, data |-> <<2, 1>>, mtime |-> 0]
     ELSE [exists |-> TRUE, data |-> <<1>>, mtime |-> 0]]

Init ==
  /\ fs = InitFs
  /\ edits = 0
  /\ bins = EmptyMap
  /\ metas = EmptyMap
  /\ manifests = EmptyMap
  /\ gen = Idle
  /\ out = NoOut
  /\ loads = 0
  /\ prev = NoPrev
  /\ snaps = EmptyMap
  /\ faults = 0
  /\ disk = EmptyMap
  /\ writers = [w \in Procs |-> IdleWriter]
  /\ temps = 0
  /\ renames = [d \in Dests |-> NoRename]
  /\ outputs = EmptyMap
  /\ last = NoCmd
  /\ call = NoCall
  /\ serve = NoServe
  /\ watch = NoWatch

\* ------------------------------------------------------------------------
\* Edits of the source tree (made between Generate calls)
\* ------------------------------------------------------------------------

Edited ==
  /\ edits' = edits + 1
  /\ prev' = NoPrev
  /\ out' = NoOut
  /\ UNCHANGED <<storeVars, cmdVars>>
  /\ UNCHANGED <<bins, metas, manifests, gen, loads, snaps, faults>>

\* os.WriteFile: create or overwrite; the file is stamped with a new time.
WriteFile(p, d) ==
  /\ gen.pc = "idle"
  /\ edits < MaxEdits
  /\ fs[p].data # d \/ ~fs[p].exists
  /\ fs' = [fs EXCEPT ![p] = [exists |-> TRUE, data |-> d,
                              mtime |-> edits + 1]]
  /\ Edited

\* os.WriteFile followed by os.Chtimes back to the old time: the bytes
\* change, the modification time does not (nor the size, when the new
\* contents are as long as the old).
WriteFileSameStamp(p, d) ==
  /\ gen.pc = "idle"
  /\ edits < MaxEdits
  /\ fs[p].exists
  /\ fs[p].data # d
  /\ fs' = [fs EXCEPT ![p].data = d]
  /\ Edited

\* os.Remove of a source file.
RemoveFile(p) ==
  /\ gen.pc = "idle"
  /\ edits < MaxEdits
  /\ fs[p].exists
  /\ fs' = [fs EXCEPT ![p] = NoFile]
  /\ Edited

\* ------------------------------------------------------------------------
\* Generate (wire.go): manifest check, load, generateForPackage per
\* package, writeManifest when every package succeeded.
\* ------------------------------------------------------------------------

\* A step under an injected fault counts against the fault budget.
Faulted(fault) ==
  IF fault = "none" THEN UNCHANGED faults
  ELSE faults < MaxFaults /\ faults' = faults + 1

\* History: what an uncached generation returns now for a package path
\* under the given run parameters: [err, Content].
ExpectedFor(tree, params, pkgPath) ==
  LET l == load(tree, Wd, params.env, params.opts.Tags, params.patterns)
      match == SelectSeq(l.pkgs, LAMBDA q : q.PkgPath = pkgPath)
  IN IF l.err \/ Len(match) = 0 THEN [err |-> TRUE, Content |-> <<>>]
     ELSE [err |-> uncachedGenerate(tree, match[1], params.opts).Errs,
           Content |-> uncachedGenerate(tree, match[1], params.opts).Content]

\* Generate, first part: readManifestResults; on a hit return the cached
\* results, on a miss call the loader.
GenStart(params, fault) ==
  /\ gen.pc = "idle"
  /\ LET cached == readManifestResults(fs, bins, manifests, Wd, params.env,
                                       params.patterns, params.opts, fault)
         l == load(fs, Wd, params.env, params.opts.Tags, params.patterns)
         afterOK == prev.valid /\ prev.params = params
         again == prev.params = params
     IN IF cached.ok
        THEN /\ UNCHANGED loads
             /\ out' = [kind |-> "results", params |-> params,
                        results |-> cached.results,
                        served |-> [i \in DOMAIN cached.results |-> "manifest"],
                        expect |-> [i \in DOMAIN cached.results |->
                                      ExpectedFor(fs, params,
                                                  cached.results[i].PkgPath)],
                        afterOK |-> afterOK, loaded |-> FALSE,
                        again |-> again, before |-> prev.results]
             /\ prev' = [valid |-> TRUE, params |-> params,
                         results |-> cached.results]
             /\ gen' = Idle
        ELSE IF l.err
        THEN /\ loads < MaxLoads
             /\ loads' = loads + 1
             /\ out' = [NoOut EXCEPT !.kind = "errors", !.params = params,
                                     !.afterOK = afterOK, !.loaded = TRUE]
             /\ prev' = NoPrev
             /\ gen' = Idle
        ELSE /\ loads < MaxLoads
             /\ loads' = loads + 1
             /\ out' = [NoOut EXCEPT !.params = params, !.afterOK = afterOK,
                               !.loaded = TRUE, !.again = again,
                               !.before = prev.results]
             /\ prev' = NoPrev
             /\ gen' = [pc |-> "packages", params |-> params,
                        pkgs |-> l.pkgs, results |-> <<>>,
                        manifest |-> <<>>]
  /\ Faulted(fault)
  /\ UNCHANGED <<storeVars, cmdVars>>
  /\ UNCHANGED <<fs, edits, bins, metas, manifests, snaps>>

\* Generate, the loop body: generateForPackage for the next package.
GenPackage(fault) ==
  /\ gen.pc = "packages"
  /\ LET i == Len(gen.results) + 1
         g == generateForPackage(fs, bins, metas, gen.pkgs[i],
                                 gen.params.opts, fault)
     IN /\ bins' = g.bins
        /\ metas' = g.metas
        /\ gen' = [gen EXCEPT
                     !.results = Append(@, g.res),
                     !.pc = IF i = Len(gen.pkgs) THEN "finish" ELSE @]
        /\ out' = [out EXCEPT
                     !.served = Append(@, IF g.hit THEN "content" ELSE "fresh"),
                     !.expect = Append(@, ExpectedFor(fs, gen.params,
                                                      gen.pkgs[i].PkgPath))]
  /\ Faulted(fault)
  /\ UNCHANGED <<storeVars, cmdVars>>
  /\ UNCHANGED <<fs, edits, manifests, loads, prev, snaps>>

\* Generate, last part: writeManifest when allGeneratedOK, then return.
GenFinish(fault) ==
  /\ gen.pc = "finish"
  /\ LET ok == allGeneratedOK(gen.results)
         p == gen.params
         w == writeManifest(fs, metas, manifests, Wd, p.env, p.patterns,
                            p.opts, gen.pkgs, fault)
     IN /\ metas' = IF ok THEN w.metas ELSE metas
        /\ manifests' = IF ok THEN w.manifests ELSE manifests
        /\ snaps' = IF ok /\ w.manifests # manifests
                    THEN Put(snaps, manifestKey(Wd, p.env, p.patterns, p.opts),
                             fs)
                    ELSE snaps
        /\ out' = [out EXCEPT !.kind = "results", !.params = p,
                              !.results = gen.results]
        /\ prev' = [valid |-> ok, params |-> p, results |-> gen.results]
  /\ gen' = Idle
  /\ Faulted(fault)
  /\ UNCHANGED <<storeVars, cmdVars>>
  /\ UNCHANGED <<fs, edits, bins, loads>>

\* The process running Generate is killed between two steps.
Abort ==
  /\ gen.pc # "idle"
  /\ gen' = Idle
  /\ out' = NoOut
  /\ prev' = NoPrev
  /\ UNCHANGED <<storeVars, cmdVars>>
  /\ UNCHANGED <<fs, edits, bins, metas, manifests, loads, snaps,
                  faults>>

\* ClearCache: remove the cache directory.
ClearCache ==
  /\ gen.pc = "idle"
  /\ DOMAIN bins \cup DOMAIN metas \cup DOMAIN manifests # {}
  /\ bins' = EmptyMap
  /\ metas' = EmptyMap
  /\ manifests' = EmptyMap
  /\ snaps' = EmptyMap
  /\ out' = NoOut
  /\ prev' = NoPrev
  /\ UNCHANGED <<storeVars, cmdVars>>
  /\ UNCHANGED <<fs, edits, gen, loads, faults>>

\* A tick of a Serve that took its state from the manifest of its
\* parameters when that manifest was valid: the watch reports changed
\* files and they belong to packages of the manifest.
ServeStart(params) ==
  /\ gen.pc = "idle"
  /\ LET key == manifestKey(Wd, params.env, params.patterns, params.opts)
     IN /\ key \in DOMAIN manifests
        /\ manifestValid(snaps[key], manifests[key])
        /\ \E changedFiles \in changed(fs, WatchedFiles(manifests[key])) :
             \E changedPkgs \in {packagesForFiles(manifests[key],
                                                  changedFiles, <<>>)} :
               /\ Len(changedPkgs) > 0
               /\ gen' = [pc |-> "serve", params |-> params,
                          pkgs |-> changedPkgs, results |-> <<>>,
                          manifest |-> manifests[key]]
  /\ out' = NoOut
  /\ prev' = NoPrev
  /\ UNCHANGED <<storeVars, cmdVars>>
  /\ UNCHANGED <<fs, edits, bins, metas, manifests, loads, snaps, faults>>

\* updateManifestPackage: the manifest Serve holds takes the entry and is
\* written to disk.
ServeUpdate(meta, fault) ==
  \E updated \in {updateManifestPackage(gen.manifest, meta)} :
    \E written \in {writeManifestFile(manifests,
                                      manifestKeyFromManifest(updated),
                                      updated, fault)} :
      /\ gen' = [gen EXCEPT !.pkgs = Tail(@), !.manifest = updated]
      /\ manifests' = written
      /\ snaps' = [k \in DOMAIN written |->
                     IF k \in DOMAIN manifests /\ written[k] = manifests[k]
                     THEN snaps[k] ELSE fs]

\* The call of Serve after the loop body has handled a package: on an
\* error reportServeError and a new nextRetry.
ServeHandled(pkgPath, how, err) ==
  IF serve.pc # "tick" THEN serve
  ELSE [serve EXCEPT !.failed = @ \/ err,
                     !.retry = @ \/ err,
                     !.tick.done = Append(@, [pkg |-> pkgPath, how |-> how])]

\* The body of the loop over the changed packages: tryCachedWrite, else
\* generateAndCommitPackage, then updateManifestPackage.  fault is the
\* fault of the reads and of the content and meta writes, mfault that of
\* the manifest write.
ServePackage(fault, mfault) ==
  /\ gen.pc = "serve"
  /\ Len(gen.pkgs) > 0
  /\ \E cachedWrite \in {tryCachedWrite(fs, bins, gen.manifest, gen.pkgs[1],
                                        gen.params.opts, fault)} :
       IF cachedWrite.ok
       THEN /\ ServeUpdate(cachedWrite.meta, mfault)
            /\ outputs' = Put(outputs, cachedWrite.meta.OutputPath,
                              cachedWrite.content)
            /\ serve' = ServeHandled(gen.pkgs[1], "cached", FALSE)
            /\ UNCHANGED <<bins, metas>>
       ELSE \E made \in {generateAndCommitPackage(
                           fs, bins, metas, gen.pkgs[1], gen.params.opts,
                           fault)} :
              /\ bins' = made.bins
              /\ metas' = made.metas
              /\ outputs' = IF Len(made.committed) = 0 THEN outputs
                            ELSE Commit(outputs, made.committed[1])
              /\ serve' = ServeHandled(gen.pkgs[1], "generated",
                                       cachedWrite.err \/ made.err)
              /\ IF made.err
                 THEN /\ gen' = [gen EXCEPT !.pkgs = Tail(@)]
                      /\ UNCHANGED <<manifests, snaps>>
                 ELSE ServeUpdate(made.meta, mfault)
  /\ Faulted(IF fault = "none" THEN mfault ELSE fault)
  /\ UNCHANGED <<storeVars, last>>
  /\ UNCHANGED <<fs, edits, out, loads, prev>>

\* The tick ends: rebuildWatch puts the files of the manifest's packages
\* under watch, and Serve is back at its select.
ServeEnd ==
  /\ gen.pc = "serve"
  /\ Len(gen.pkgs) = 0
  /\ gen' = Idle
  /\ serve' = IF serve.pc # "tick" THEN serve
              ELSE [serve EXCEPT !.pc = "select",
                                 !.manifest = gen.manifest,
                                 !.watch = WatchedOf(gen.manifest.Packages)]
  /\ UNCHANGED <<storeVars, outputs, last>>
  /\ UNCHANGED <<fs, edits, bins, metas, manifests, out, loads, prev,
                 snaps, faults>>

Edit ==
  \/ \E p \in Paths, d \in FileData : WriteFile(p, d)
  \/ \E p \in Paths, d \in FileData : WriteFileSameStamp(p, d)
  \/ \E p \in Paths : RemoveFile(p)

\* The system with I/O faults injected into the cache.
Next ==
  \/ Edit
  \/ \E params \in RunParams, fault \in {"none", "read"} :
       GenStart(params, fault)
  \/ \E fault \in Faults : GenPackage(fault)
  \/ \E fault \in {"none", "write"} : GenFinish(fault)
  \/ \E params \in RunParams : ServeStart(params)
  \/ \E fault \in Faults, mfault \in {"none", "write"} :
       ServePackage(fault, mfault)
  \/ ServeEnd
  \/ Abort
  \/ ClearCache

Spec == Init /\ [][Next]_vars

\* The system with a cache directory whose I/O never fails.
NextReliable ==
  \/ Edit
  \/ \E params \in RunParams : GenStart(params, "none")
  \/ GenPackage("none")
  \/ GenFinish("none")
  \/ \E params \in RunParams : ServeStart(params)
  \/ ServePackage("none", "none")
  \/ ServeEnd
  \/ Abort
  \/ ClearCache

SpecReliable == Init /\ [][NextReliable]_vars

\* Generate calls alone, between edits, every step of a call under any
\* cache I/O fault.
NextGen ==
  \/ Edit
  \/ \E params \in RunParams, fault \in {"none", "read"} :
       GenStart(params, fault)
  \/ \E fault \in Faults : GenPackage(fault)
  \/ \E fault \in {"none", "write"} : GenFinish(fault)

SpecGen == Init /\ [][NextGen]_vars

\* ------------------------------------------------------------------------
\* The validators and the hash functions applied to arbitrary inputs:
\* stored records drawn from a bounded set of well-formed and damaged
\* ones, checked against a source tree that is then edited.
\* ------------------------------------------------------------------------

\* Options that differ from the default in one field each.
FnOpts ==
  {DefaultOpts,
   [DefaultOpts EXCEPT !.Tags = <<1>>],
   [DefaultOpts EXCEPT !.PrefixOutputFile = <<2>>],
   [DefaultOpts EXCEPT !.Header = <<1>>]}

\* The (env, patterns, opts) the functions are applied with.
FnParams ==
  [env : {<<>>, <<EnvA>>}, patterns : {<<PatApp>>, <<PatAll>>},
   opts : {DefaultOpts}]
  \cup [env : {<<EnvA>>}, patterns : {<<PatApp>>}, opts : FnOpts]

\* What writeManifest stores for ./... over the initial tree.
FnWritten ==
  writeManifest(InitFs, EmptyMap, EmptyMap, Wd, <<EnvA>>, <<PatAll>>,
                DefaultOpts,
                load(InitFs, Wd, <<EnvA>>, <<>>, <<PatAll>>).pkgs, "none")

\* Ways a stored manifest can differ from the written one: one part
\* damaged, dropped or emptied.
ManifestDamages ==
  {"version", "envHash", "noPackages", "fewerPackages", "noExtra",
   "extraSize", "extraPath", "contentHash", "noFiles", "fileTime",
   "noRootFiles", "noRoot", "noRootHash", "rootHash"}

DamagedManifest(m, d) ==
  CASE d = "version" -> [m EXCEPT !.Version = <<2>>]
    [] d = "envHash" -> [m EXCEPT !.EnvHash = <<>>]
    [] d = "noPackages" -> [m EXCEPT !.Packages = <<>>]
    [] d = "fewerPackages" -> [m EXCEPT !.Packages = Tail(@)]
    [] d = "noExtra" -> [m EXCEPT !.ExtraFiles = <<>>]
    [] d = "extraSize" -> [m EXCEPT !.ExtraFiles[1].Size = @ + 1]
    [] d = "extraPath" -> [m EXCEPT !.ExtraFiles[1].Path = DotSeg \o @]
    [] d = "contentHash" -> [m EXCEPT !.Packages[1].ContentHash = <<>>]
    [] d = "noFiles" -> [m EXCEPT !.Packages[1].Files = <<>>]
    [] d = "fileTime" -> [m EXCEPT !.Packages[1].Files[1].ModTime = @ + 1]
    [] d = "noRootFiles" -> [m EXCEPT !.Packages[1].RootFiles = <<>>]
    [] d = "noRoot" -> [m EXCEPT !.Packages[1].RootFiles = <<>>,
                                 !.Packages[1].RootHash = <<>>]
    [] d = "noRootHash" -> [m EXCEPT !.Packages[1].RootHash = <<>>]
    [] d = "rootHash" -> [m EXCEPT !.Packages[1].RootHash = Sha256(<<>>)]

\* Likewise for a stored cacheMeta.
MetaDamages ==
  {"version", "pkgPath", "tags", "prefix", "headerHash", "fewerFiles",
   "noFiles", "fileSize", "contentHash", "noRootHash", "rootHash"}

DamagedMeta(m, d) ==
  CASE d = "version" -> [m EXCEPT !.Version = <<2>>]
    [] d = "pkgPath" -> [m EXCEPT !.PkgPath = PkgDep]
    [] d = "tags" -> [m EXCEPT !.Tags = <<1>>]
    [] d = "prefix" -> [m EXCEPT !.Prefix = <<2>>]
    [] d = "headerHash" -> [m EXCEPT !.HeaderHash = Sha256(<<1>>)]
    [] d = "fewerFiles" -> [m EXCEPT !.Files = Tail(@)]
    [] d = "noFiles" -> [m EXCEPT !.Files = <<>>]
    [] d = "fileSize" -> [m EXCEPT !.Files[1].Size = @ + 1]
    [] d = "contentHash" -> [m EXCEPT !.ContentHash = <<>>]
    [] d = "noRootHash" -> [m EXCEPT !.RootHash = <<>>]
    [] d = "rootHash" -> [m EXCEPT !.RootHash = Sha256(<<>>)]

\* The cache directory after that run; the parameters are drawn.
InitFn ==
  /\ fs = InitFs
  /\ edits = 0
  /\ bins = EmptyMap
  /\ manifests = FnWritten.manifests
  /\ metas = FnWritten.metas
  /\ \E p \in FnParams : gen = [Idle EXCEPT !.params = p]
  /\ out = NoOut
  /\ loads = 0
  /\ prev = NoPrev
  /\ snaps = [key \in DOMAIN FnWritten.manifests |-> InitFs]
  /\ faults = 0
  /\ disk = EmptyMap
  /\ writers = [w \in Procs |-> IdleWriter]
  /\ temps = 0
  /\ renames = [d \in Dests |-> NoRename]
  /\ outputs = EmptyMap
  /\ last = NoCmd
  /\ call = NoCall
  /\ serve = NoServe
  /\ watch = NoWatch

\* One stored record is replaced by a damaged copy.
Damage ==
  /\ faults = 0
  /\ faults' = 1
  /\ \/ \E key \in DOMAIN manifests, d \in ManifestDamages :
          /\ manifests' = [manifests EXCEPT ![key] = DamagedManifest(@, d)]
          /\ UNCHANGED metas
     \/ \E key \in DOMAIN metas, d \in MetaDamages :
          /\ metas' = [metas EXCEPT ![key] = DamagedMeta(@, d)]
          /\ UNCHANGED manifests
  /\ out' = NoOut
  /\ UNCHANGED <<storeVars, cmdVars>>
  /\ UNCHANGED <<fs, edits, bins, gen, loads, prev, snaps>>

\* The package app as the loader returns it under the current parameters.
FnPkg == LoadedApp(fs)

\* Whether the loader returns package app under the current parameters.
FnLoaded ==
  LET l == load(fs, Wd, gen.params.env, gen.params.opts.Tags,
                gen.params.patterns)
  IN ~l.err /\ \E i \in DOMAIN l.pkgs : l.pkgs[i] = FnPkg

\* The sorted transitive files cacheKeyForPackage passes on.
FnFiles == sortedStrings(packageFiles(FnPkg))

\* The content hash of package app under the current parameters.
FnContentHash ==
  contentHashForPaths(fs, FnPkg.PkgPath, gen.params.opts, FnFiles)

\* The manifest key under the current parameters.
FnKey ==
  manifestKey(Wd, gen.params.env, gen.params.patterns, gen.params.opts)

\* Apply manifestValid to a stored manifest.
ApplyManifestValid ==
  /\ out.kind # "manifestValid"
  /\ \E key \in DOMAIN manifests :
       out' = [NoOut EXCEPT !.kind = "manifestValid", !.params = key,
                            !.results = <<manifestValid(fs, manifests[key])>>]
  /\ UNCHANGED <<storeVars, cmdVars>>
  /\ UNCHANGED <<fs, edits, bins, metas, manifests, gen, loads, prev,
                 snaps, faults>>

\* Apply cacheMetaMatches to a stored cacheMeta, for package app.
ApplyCacheMetaMatches ==
  /\ out.kind # "cacheMetaMatches"
  /\ FnLoaded
  /\ \E key \in DOMAIN metas :
       out' = [NoOut EXCEPT
                 !.kind = "cacheMetaMatches", !.params = key,
                 !.results = <<cacheMetaMatches(fs, metas[key], FnPkg,
                                                gen.params.opts, FnFiles)>>]
  /\ UNCHANGED <<storeVars, cmdVars>>
  /\ UNCHANGED <<fs, edits, bins, metas, manifests, gen, loads, prev,
                 snaps, faults>>

\* Apply contentHashForPaths and manifestKey.
ApplyHashes ==
  /\ out.kind # "hashes"
  /\ FnLoaded
  /\ out' = [NoOut EXCEPT !.kind = "hashes",
                          !.results = <<FnContentHash.v, FnKey>>]
  /\ UNCHANGED <<storeVars, cmdVars>>
  /\ UNCHANGED <<fs, edits, bins, metas, manifests, gen, loads, prev,
                 snaps, faults>>

\* Whether two parameter records differ in exactly one input.
OneInputDiffers(p, q) ==
  \/ p.env # q.env /\ p.patterns = q.patterns /\ p.opts = q.opts
  \/ p.env = q.env /\ p.patterns # q.patterns /\ p.opts = q.opts
  \/ /\ p.env = q.env /\ p.patterns = q.patterns
     /\ Cardinality({f \in DOMAIN p.opts : p.opts[f] # q.opts[f]}) = 1

\* Change one of the inputs: the environment, the patterns or one option.
ChangeInput ==
  /\ \E q \in FnParams :
       /\ OneInputDiffers(gen.params, q)
       /\ gen' = [gen EXCEPT !.params = q]
  /\ out' = NoOut
  /\ UNCHANGED <<storeVars, cmdVars>>
  /\ UNCHANGED <<fs, edits, bins, metas, manifests, loads, prev, snaps,
                 faults>>

NextFn ==
  \/ Edit
  \/ Damage
  \/ ChangeInput
  \/ ApplyManifestValid
  \/ ApplyCacheMetaMatches
  \/ ApplyHashes

SpecFn == InitFn /\ [][NextFn]_vars

\* ------------------------------------------------------------------------
\* Serve alone, over the cache directory a run for ./... left behind:
\* the blobs and metadata of generateForPackage for each package and the
\* manifest of writeManifest.
\* ------------------------------------------------------------------------

ServeParams == [env |-> <<EnvA>>, patterns |-> <<PatAll>>, opts |-> DefaultOpts]

\* generateForPackage for each package in turn: [bins, metas].
RECURSIVE GeneratedCache(_, _, _, _)
GeneratedCache(tree, pkgs, opts, st) ==
  IF Len(pkgs) = 0 THEN st
  ELSE GeneratedCache(
         tree, Tail(pkgs), opts,
         [bins |-> generateForPackage(tree, st.bins, st.metas, pkgs[1],
                                      opts, "none").bins,
          metas |-> generateForPackage(tree, st.bins, st.metas, pkgs[1],
                                       opts, "none").metas])

InitServe ==
  /\ fs = InitFs
  /\ edits = 0
  /\ bins = GeneratedCache(InitFs, <<LoadedApp(InitFs), LoadedDep(InitFs)>>,
                           DefaultOpts,
                           [bins |-> EmptyMap, metas |-> EmptyMap]).bins
  /\ metas = FnWritten.metas
  /\ manifests = FnWritten.manifests
  /\ gen = Idle
  /\ out = NoOut
  /\ loads = 0
  /\ prev = NoPrev
  /\ snaps = [key \in DOMAIN FnWritten.manifests |-> InitFs]
  /\ faults = 0
  /\ disk = EmptyMap
  /\ writers = [w \in Procs |-> IdleWriter]
  /\ temps = 0
  /\ renames = [d \in Dests |-> NoRename]
  /\ outputs = EmptyMap
  /\ last = NoCmd
  /\ call = NoCall
  /\ serve = NoServe
  /\ watch = NoWatch

NextServe ==
  \/ Edit
  \/ ServeStart(ServeParams)
  \/ \E fault \in Faults, mfault \in {"none", "write"} :
       ServePackage(fault, mfault)
  \/ ServeEnd
  \/ ClearCache

SpecServe == InitServe /\ [][NextServe]_vars

\* ------------------------------------------------------------------------
\* serve.go Serve and serve_cmd.go Execute: the call of Serve, its ticks,
\* the cancellation of its context and its return.  A call of
\* generateAndCommit runs Generate step by step (GenStart, GenPackage,
\* GenFinish) and then commits; the loop over the owning packages runs
\* one package per step (ServePackage, ServeEnd).
\* ------------------------------------------------------------------------

\* serveStateFor: the state of the valid manifest of the run, else the
\* state of the loaded packages: their files and the extra files under
\* watch, and no manifest.
\* Returns [err, fromManifest, manifest, watch].
serveStateFor(tree, manifestFiles, params) ==
  LET stored == readManifest(manifestFiles,
                             manifestKey(Wd, params.env, params.patterns,
                                         params.opts), "none")
      l == load(tree, Wd, params.env, params.opts.Tags, params.patterns)
      cacheFiles == buildCacheFiles(tree, packageFilesWalk(l.pkgs, {}, <<>>))
      failed == [err |-> TRUE, fromManifest |-> FALSE, manifest |-> <<>>,
                 watch |-> <<>>]
  IN IF stored.ok /\ manifestValid(tree, stored.v)
     THEN [err |-> FALSE, fromManifest |-> TRUE, manifest |-> stored.v,
           watch |-> WatchedFiles(stored.v)]
     ELSE IF l.err \/ cacheFiles.err THEN failed
     ELSE [err |-> FALSE, fromManifest |-> FALSE, manifest |-> <<>>,
           watch |-> cacheFiles.v \o extraCacheFiles(tree, Wd)]

\* Serve takes the state a successful serveStateFor returned.
WithState(sv, st) ==
  IF st.err THEN sv
  ELSE [sv EXCEPT !.hasState = TRUE, !.fromManifest = st.fromManifest,
                  !.manifest = st.manifest, !.watch = st.watch,
                  !.watchNil = FALSE]

\* Serve is called: serveStateFor, whose error is reported and sets
\* nextRetry; generateAndCommit follows.  Serve is called, and a tick
\* regenerates, while Generate may still load.
ServeCall(params) ==
  /\ serve.pc = "off"
  /\ gen.pc = "idle"
  /\ loads < MaxLoads
  /\ \E st \in {serveStateFor(fs, manifests, params)} :
       /\ serve' = [WithState([NoServe EXCEPT !.pc = "call",
                                              !.params = params], st)
                      EXCEPT !.retry = st.err, !.failed = st.err]
  /\ out' = NoOut
  /\ UNCHANGED <<storeVars, outputs, last>>
  /\ UNCHANGED <<fs, edits, bins, metas, manifests, gen, loads, prev,
                 snaps, faults>>

\* tickPlan with the wait for nextRetry applied to changed files too.
tickPlan_RetryFirst(sv, changedFiles, unknown, early) ==
  IF ~sv.hasState THEN "full"
  ELSE IF Len(changedFiles) = 0 /\ ~unknown THEN "skip"
  ELSE IF sv.retry /\ early THEN "skip"
  ELSE IF unknown \/ ~sv.fromManifest THEN "fullRetry"
  ELSE IF Len(packagesForFiles(sv.manifest, changedFiles, <<>>)) = 0
  THEN "full"
  ELSE "packages"

\* What a tick does with the files the watch reports: nothing ("skip"),
\* generateAndCommit and serveStateFor ("full", "fullRetry" when an error
\* sets nextRetry), or the loop over the owning packages ("packages").
\* unknown tells whether a watched directory changed while no watched
\* file did; early whether nextRetry is still ahead.
tickPlan(sv, changedFiles, unknown, early) ==
  IF ~sv.hasState THEN "full"
  ELSE IF Len(changedFiles) = 0 /\ ~unknown THEN "skip"
  ELSE IF Len(changedFiles) = 0 /\ unknown /\ sv.retry /\ early THEN "skip"
  ELSE IF unknown \/ ~sv.fromManifest THEN "fullRetry"
  ELSE IF Len(packagesForFiles(sv.manifest, changedFiles, <<>>)) = 0
  THEN "full"
  ELSE "packages"

\* The ticker fires and the select takes it; the state, when there is one,
\* has a watch.
Tick(unknownDir, early) ==
  /\ serve.pc = "select"
  /\ gen.pc = "idle"
  /\ ~(serve.hasState /\ serve.watchNil)
  /\ \E changedFiles \in IF serve.hasState THEN changed(fs, serve.watch)
                         ELSE {<<>>} :
       \E unknown \in {unknownDir /\ serve.hasState /\ Len(changedFiles) = 0} :
         \E plan \in {tickPlan(serve, changedFiles, unknown, early)} :
           \/ /\ plan = "skip"
              /\ serve' = [serve EXCEPT
                             !.tick = [NoTick EXCEPT !.changed = changedFiles,
                                                     !.unknown = unknown,
                                                     !.plan = plan]]
              /\ UNCHANGED gen
           \/ /\ plan \in {"full", "fullRetry"}
              /\ loads < MaxLoads
              /\ serve' = [serve EXCEPT
                             !.pc = "full",
                             !.tick = [NoTick EXCEPT !.changed = changedFiles,
                                                     !.unknown = unknown,
                                                     !.plan = plan]]
              /\ UNCHANGED gen
           \/ /\ plan = "packages"
              /\ gen' = [pc |-> "serve", params |-> serve.params,
                         pkgs |-> packagesForFiles(serve.manifest,
                                                   changedFiles, <<>>),
                         results |-> <<>>, manifest |-> serve.manifest]
              /\ serve' = [serve EXCEPT
                             !.pc = "tick",
                             !.tick = [NoTick EXCEPT
                                         !.changed = changedFiles,
                                         !.plan = plan,
                                         !.owners = gen'.pkgs,
                                         !.attempt = "packages"]]
  /\ out' = NoOut
  /\ UNCHANGED <<storeVars, outputs, last>>
  /\ UNCHANGED <<fs, edits, bins, metas, manifests, loads, prev, snaps,
                 faults>>

\* generateAndCommit, first part: Serve calls Generate.
ServeGenerate ==
  /\ serve.pc \in {"call", "full"}
  /\ out.kind = "none"
  /\ GenStart(serve.params, "none")

\* generateAndCommit, last part: the results Generate returned are
\* committed; in a tick serveStateFor follows.  An error is reported, and
\* sets nextRetry where Serve does so.
ServeCommit ==
  /\ serve.pc \in {"call", "full"}
  /\ gen.pc = "idle"
  /\ out.kind \in {"results", "errors"}
  /\ \E c \in {generateAndCommit(out.kind = "errors", out.results, outputs,
                                 TRUE)} :
       /\ outputs' = c.files
       /\ IF serve.pc = "call"
          THEN /\ serve' = [serve EXCEPT
                              !.pc = "select",
                              !.retry = @ \/ c.exit # ExitSuccess,
                              !.failed = @ \/ c.exit # ExitSuccess]
          ELSE \E st \in {serveStateFor(fs, manifests, serve.params)} :
                 \E err \in {c.exit # ExitSuccess \/ st.err} :
                   /\ serve' = [WithState(serve, st) EXCEPT
                                  !.pc = "select",
                                  !.failed = @ \/ err,
                                  !.retry = @ \/ (serve.tick.plan = "fullRetry"
                                                  /\ err),
                                  !.tick.attempt = "full"]
  /\ out' = NoOut
  /\ UNCHANGED <<storeVars, last>>
  /\ UNCHANGED <<fs, edits, bins, metas, manifests, gen, loads, prev,
                 snaps, faults>>

\* The context of Serve is cancelled: an interrupt or SIGTERM cancels it,
\* a deadline of the caller's context expires.
ServeCancel(cause) ==
  /\ serve.pc \in {"call", "full", "select", "tick"}
  /\ serve.cancelled = ""
  /\ serve' = [serve EXCEPT !.cancelled = cause]
  /\ UNCHANGED <<storeVars, outputs, last>>
  /\ UNCHANGED <<fs, edits, bins, metas, manifests, gen, out, loads, prev,
                 snaps, faults>>

\* serveCmd.Execute with every error of Serve a failure.
serveExit_AllFailure(result) ==
  IF result = "" THEN ExitSuccess ELSE ExitFailure

\* serveCmd.Execute on the error Serve returned: success for nil and for
\* context.Canceled.
serveExit(result) ==
  IF result \in {"", "canceled"} THEN ExitSuccess ELSE ExitFailure

\* The select takes ctx.Done(): Serve returns ctx.Err() and the command
\* returns its exit status.
ServeReturn ==
  /\ serve.pc = "select"
  /\ serve.cancelled # ""
  /\ serve' = [serve EXCEPT !.pc = "returned", !.result = serve.cancelled,
                            !.exit = serveExit(serve.cancelled)]
  /\ UNCHANGED <<storeVars, outputs, last>>
  /\ UNCHANGED <<fs, edits, bins, metas, manifests, gen, out, loads, prev,
                 snaps, faults>>

Causes == {"canceled", "deadline"}

NextLoop ==
  \/ Edit
  \/ ServeCall(ServeParams)
  \/ \E unknown \in BOOLEAN, early \in BOOLEAN : Tick(unknown, early)
  \/ ServeGenerate
  \/ GenPackage("none")
  \/ GenFinish("none")
  \/ ServeCommit
  \/ ServePackage("none", "none")
  \/ ServeEnd
  \/ \E cause \in Causes : ServeCancel(cause)
  \/ ServeReturn
  \/ ClearCache

SpecLoop == Init /\ [][NextLoop]_vars

\* Serve is inside generateAndCommit, serveStateFor or the loop over the
\* owning packages.
InProgress == serve.pc \in {"call", "full", "tick"}

\* Serve with the scheduling the runtime gives it: every generation call
\* in progress returns, and a select at which ctx.Done() is ready again
\* and again takes it in the end (the runtime picks among the ready
\* cases of a select at random).
SpecLoopFair ==
  /\ SpecLoop
  /\ []<>(~InProgress)
  /\ SF_vars(ServeReturn)

\* ------------------------------------------------------------------------
\* generateForPackage called for either package under any options, over
\* a cache directory that its own earlier calls filled.
\* ------------------------------------------------------------------------

\* GenerateOptions that differ from the default in one field each, and
\* one whose header the pretty-printer rejects.
PkgOpts == FnOpts \cup {[DefaultOpts EXCEPT !.Header = BadHeader]}

\* The trees the calls are made over: the initial one, one where package
\* app has lost its injector, and one where it has a second file.
PkgTrees ==
  {InitFs,
   [InitFs EXCEPT ![AppWire].data = <<2>>],
   [InitFs EXCEPT ![AppExtra] = [exists |-> TRUE, data |-> <<2>>,
                                 mtime |-> 0]]}

InitPkg ==
  /\ fs \in PkgTrees
  /\ edits = 0
  /\ bins = EmptyMap
  /\ metas = EmptyMap
  /\ manifests = EmptyMap
  /\ gen = Idle
  /\ out = NoOut
  /\ loads = 0
  /\ prev = NoPrev
  /\ snaps = EmptyMap
  /\ faults = 0
  /\ disk = EmptyMap
  /\ writers = [w \in Procs |-> IdleWriter]
  /\ temps = 0
  /\ renames = [d \in Dests |-> NoRename]
  /\ outputs = EmptyMap
  /\ last = NoCmd
  /\ call = NoCall
  /\ serve = NoServe
  /\ watch = NoWatch

\* One call of generateForPackage; out takes its result, whether it was
\* a content-cache hit, and what generation without a cache returns.
GeneratePackage(pkg, opts) ==
  /\ \E g \in {generateForPackage(fs, bins, metas, pkg, opts, "none")} :
       /\ bins' = g.bins
       /\ metas' = g.metas
       /\ out' = [NoOut EXCEPT
                    !.kind = "package",
                    !.params = [pkg |-> pkg.PkgPath, opts |-> opts],
                    !.results = <<g.res>>,
                    !.served = <<IF g.hit THEN "content" ELSE "fresh">>,
                    !.expect = <<[err |-> uncachedGenerate(fs, pkg, opts).Errs,
                                  Content |->
                                    uncachedGenerate(fs, pkg, opts).Content]>>]
  /\ UNCHANGED <<storeVars, cmdVars>>
  /\ UNCHANGED <<fs, edits, manifests, gen, loads, prev, snaps, faults>>

NextPkg ==
  \E pkg \in {LoadedApp(fs), LoadedDep(fs)}, opts \in PkgOpts :
    GeneratePackage(pkg, opts)

SpecPkg == InitPkg /\ [][NextPkg]_vars

\* ------------------------------------------------------------------------
\* Generate called on a cache directory that ClearCache has just emptied.
\* ------------------------------------------------------------------------

\* A call of Generate that finds the cache directory empty.
FreshGenStart(params, fault) ==
  /\ DOMAIN bins \cup DOMAIN metas \cup DOMAIN manifests = {}
  /\ GenStart(params, fault)

NextFresh ==
  \/ Edit
  \/ \E params \in RunParams, fault \in {"none", "read"} :
       FreshGenStart(params, fault)
  \/ \E fault \in Faults : GenPackage(fault)
  \/ \E fault \in {"none", "write"} : GenFinish(fault)
  \/ ClearCache

SpecFresh == Init /\ [][NextFresh]_vars

\* ------------------------------------------------------------------------
\* The commands: each calls Generate once and then commits or diffs
\* what it returned.
\* ------------------------------------------------------------------------

\* The parameters the commands call Generate with: the default options
\* and a header the pretty-printer rejects.
CmdParams ==
  {[env |-> <<EnvA>>, patterns |-> <<PatAll>>, opts |-> DefaultOpts],
   [env |-> <<EnvA>>, patterns |-> <<PatAll>>,
    opts |-> [DefaultOpts EXCEPT !.Header = BadHeader]]}

Cmds == {"gen", "watch", "serve", "diff"}

\* The trees the commands run over: those of the package runs and one
\* the loader fails on.
CmdTrees == PkgTrees \cup {[InitFs EXCEPT ![DepFile] = NoFile]}

InitCmd ==
  /\ fs \in CmdTrees
  /\ edits = 0
  /\ bins = EmptyMap
  /\ metas = EmptyMap
  /\ manifests = EmptyMap
  /\ gen = Idle
  /\ out = NoOut
  /\ loads = 0
  /\ prev = NoPrev
  /\ snaps = EmptyMap
  /\ faults = 0
  /\ disk = EmptyMap
  /\ writers = [w \in Procs |-> IdleWriter]
  /\ temps = 0
  /\ renames = [d \in Dests |-> NoRename]
  /\ outputs = EmptyMap
  /\ last = NoCmd
  /\ call = NoCall
  /\ serve = NoServe
  /\ watch = NoWatch

\* gen or diff fails before it calls Generate: the profile cannot be
\* started, the working directory is unknown, or the header file cannot
\* be read.
CmdEarlyExit(cmd, stage) ==
  /\ gen.pc = "idle"
  /\ \E r \in {Execute(cmd, stage, FALSE, <<>>, outputs, TRUE)} :
       last' = [cmd |-> cmd, stage |-> stage, exit |-> r.exit,
                errs |-> FALSE, outs |-> <<>>, ioOK |-> TRUE,
                before |-> outputs, after |-> r.files]
  /\ UNCHANGED <<outputs, serve>>
  /\ UNCHANGED storeVars
  /\ UNCHANGED <<fs, edits, bins, metas, manifests, gen, out, loads, prev,
                 snaps, faults>>

\* Generate has returned to the command: it commits or diffs the
\* results and returns.  ioOK tells whether its writes (gen, watch,
\* serve) or its diffs (diff) succeed.
CmdFinish(cmd, ioOK) ==
  /\ gen.pc = "idle"
  /\ out.kind \in {"results", "errors"}
  /\ \E r \in {Execute(cmd, "none", out.kind = "errors", out.results,
                       outputs, ioOK)} :
       /\ outputs' = r.files
       /\ last' = [cmd |-> cmd, stage |-> "none", exit |-> r.exit,
                   errs |-> out.kind = "errors", outs |-> out.results,
                   ioOK |-> ioOK, before |-> outputs, after |-> r.files]
  /\ out' = NoOut
  /\ UNCHANGED <<storeVars, serve>>
  /\ UNCHANGED <<fs, edits, bins, metas, manifests, gen, loads, prev,
                 snaps, faults>>

NextCmd ==
  \/ \E params \in CmdParams : GenStart(params, "none")
  \/ GenPackage("none")
  \/ GenFinish("none")
  \/ \E cmd \in {"gen", "diff"}, stage \in Stages : CmdEarlyExit(cmd, stage)
  \/ \E cmd \in Cmds, ioOK \in BOOLEAN : CmdFinish(cmd, ioOK)
  \/ ClearCache

SpecCmd == InitCmd /\ [][NextCmd]_vars

\* ------------------------------------------------------------------------
\* cache_store.go writeCache, cache_key.go writeCacheMeta and
\* cache_manifest.go writeManifestFile, one system call per step, by two
\* processes on the same key.  Each call may fail; a process may stop
\* between any two steps.  os.Rename replaces the destination in one step.
\* ------------------------------------------------------------------------

\* A map without one key.
Drop(map, key) == [k \in DOMAIN map \ {key} |-> map[k]]

\* The destination of a writer.
DestOf(kind) == <<kind, StoreKey>>

\* The test after Write and Close: either error abandons the write.
WriteFailed_CloseOnly(writeErr, closeErr) == closeErr

WriteFailed(writeErr, closeErr) == writeErr \/ closeErr

\* A process calls one of the three writers.
StartWrite(w, kind, data) ==
  /\ writers[w].pc = "idle"
  /\ temps < MaxTemps
  /\ writers' = [writers EXCEPT ![w] =
                   [IdleWriter EXCEPT !.pc = "mkdir", !.kind = kind,
                                      !.data = data,
                                      !.existed =
                                        DestOf(kind) \in DOMAIN disk]]
  /\ UNCHANGED <<disk, temps, renames>>
  /\ UNCHANGED genVars

\* os.MkdirAll; on an error the writer returns.  writeCache has nothing to
\* marshal.
MkdirAll(w, ok) ==
  /\ writers[w].pc = "mkdir"
  /\ writers' = [writers EXCEPT ![w] =
                   IF ~ok THEN IdleWriter
                   ELSE IF @.kind = "bin" THEN [@ EXCEPT !.pc = "create"]
                   ELSE [@ EXCEPT !.pc = "marshal"]]
  /\ disk' = IF ok /\ cacheDir \notin DOMAIN disk
             THEN Put(disk, cacheDir, <<>>) ELSE disk
  /\ UNCHANGED <<temps, renames>>
  /\ UNCHANGED genVars

\* json.Marshal; on an error the writer returns.
Marshal(w, ok) ==
  /\ writers[w].pc = "marshal"
  /\ writers' = [writers EXCEPT ![w] =
                   IF ok THEN [@ EXCEPT !.pc = "create"] ELSE IdleWriter]
  /\ UNCHANGED <<disk, temps, renames>>
  /\ UNCHANGED genVars

\* os.CreateTemp: a new empty file; on an error, as when the directory
\* is gone, the writer returns.
CreateTemp(w, ok) ==
  /\ writers[w].pc = "create"
  /\ IF ok /\ cacheDir \in DOMAIN disk
     THEN LET name == TempName(writers[w].kind, StoreKey, temps + 1)
          IN /\ temps' = temps + 1
             /\ disk' = Put(disk, name, <<>>)
             /\ writers' = [writers EXCEPT ![w].pc = "write",
                                           ![w].tmp = name]
     ELSE /\ writers' = [writers EXCEPT ![w] = IdleWriter]
          /\ UNCHANGED <<disk, temps>>
  /\ UNCHANGED renames
  /\ UNCHANGED genVars

\* tmp.Write: n bytes reach the temp file; fewer than all is an error.
TmpWrite(w, n) ==
  /\ writers[w].pc = "write"
  /\ disk' = IF writers[w].tmp \in DOMAIN disk
             THEN [disk EXCEPT ![writers[w].tmp] =
                     SubSeq(writers[w].data, 1, n)]
             ELSE disk
  /\ writers' = [writers EXCEPT ![w].pc = "close",
                                ![w].writeErr = n < Len(writers[w].data)]
  /\ UNCHANGED <<temps, renames>>
  /\ UNCHANGED genVars

\* tmp.Close, then the test of both errors.
TmpClose(w, ok) ==
  /\ writers[w].pc = "close"
  /\ writers' = [writers EXCEPT ![w].pc =
                   IF WriteFailed(writers[w].writeErr, ~ok)
                   THEN "remove" ELSE "rename"]
  /\ UNCHANGED <<disk, temps, renames>>
  /\ UNCHANGED genVars

\* os.Rename of the temp file onto the destination: it replaces the
\* destination in one step, or fails and leaves it as it is.
Rename(w, ok) ==
  /\ writers[w].pc = "rename"
  /\ IF ok /\ writers[w].tmp \in DOMAIN disk
     THEN /\ disk' = Drop(Put(disk, DestOf(writers[w].kind),
                              disk[writers[w].tmp]),
                          writers[w].tmp)
          /\ renames' = [renames EXCEPT ![DestOf(writers[w].kind)] =
                           [by |-> @.by \cup {w}, last |-> w,
                            data |-> writers[w].data,
                            cleared |-> @.cleared]]
          /\ writers' = [writers EXCEPT ![w] = IdleWriter]
     ELSE /\ writers' = [writers EXCEPT ![w].pc = "remove"]
          /\ UNCHANGED <<disk, renames>>
  /\ UNCHANGED temps
  /\ UNCHANGED genVars

\* os.Remove of the temp file after a failure; its own error is ignored.
RemoveTemp(w, ok) ==
  /\ writers[w].pc = "remove"
  /\ disk' = IF ok THEN Drop(disk, writers[w].tmp) ELSE disk
  /\ writers' = [writers EXCEPT ![w] = IdleWriter]
  /\ UNCHANGED <<temps, renames>>
  /\ UNCHANGED genVars

\* The process stops where it is; what it left on disk stays.
Crash(w) ==
  /\ writers[w].pc # "idle"
  /\ writers' = [writers EXCEPT ![w] = IdleWriter]
  /\ UNCHANGED <<disk, temps, renames>>
  /\ UNCHANGED genVars

\* ClearCache leaving the manifest files in place.
ClearCacheDir_KeepManifests ==
  /\ disk # EmptyMap
  /\ disk' = [f \in {g \in DOMAIN disk : g[1] = "manifest.json"} |-> disk[f]]
  /\ renames' = [d \in Dests |->
                   [NoRename EXCEPT !.cleared = d \in DOMAIN disk]]
  /\ UNCHANGED <<writers, temps>>
  /\ UNCHANGED genVars

\* ClearCache, os.RemoveAll(cacheDir()): the directory goes with every
\* file in it, the temp files of the writers in flight included.
ClearCacheDir ==
  /\ disk # EmptyMap
  /\ disk' = EmptyMap
  /\ renames' = [d \in Dests |->
                   [NoRename EXCEPT !.cleared = d \in DOMAIN disk]]
  /\ UNCHANGED <<writers, temps>>
  /\ UNCHANGED genVars

\* readCache, readCacheMeta, readManifest on the disk: os.ReadFile of the
\* destination; a miss when it is not there.
ReadDest(files, path) ==
  [ok |-> path \in DOMAIN files,
   v |-> IF path \in DOMAIN files THEN files[path] ELSE <<>>]

NextStore ==
  \/ \E w \in Procs, kind \in Kinds :
       StartWrite(w, kind, BlobOf(w))
  \/ \E w \in Procs, ok \in BOOLEAN : MkdirAll(w, ok)
  \/ \E w \in Procs, ok \in BOOLEAN : Marshal(w, ok)
  \/ \E w \in Procs, ok \in BOOLEAN : CreateTemp(w, ok)
  \/ \E w \in Procs, n \in 0..2 : TmpWrite(w, n)
  \/ \E w \in Procs, ok \in BOOLEAN : TmpClose(w, ok)
  \/ \E w \in Procs, ok \in BOOLEAN : Rename(w, ok)
  \/ \E w \in Procs, ok \in BOOLEAN : RemoveTemp(w, ok)
  \/ \E w \in Procs : Crash(w)

SpecStore == Init /\ [][NextStore]_vars

\* The writers and ClearCache.
NextClear ==
  \/ NextStore
  \/ ClearCacheDir

SpecClear == Init /\ [][NextClear]_vars

\* ------------------------------------------------------------------------
\* Properties of the cache as the Generate facade uses it
\* ------------------------------------------------------------------------

\* The manifest the last finished call was keyed to.
OutKey == manifestKey(Wd, out.params.env, out.params.patterns, out.params.opts)

\* Whether the last finished call returned, for every manifest package, the
\* blob stored under its ContentHash, without invoking the loader.
AnsweredFromManifest ==
  /\ out.kind = "results"
  /\ ~out.loaded
  /\ OutKey \in DOMAIN manifests
  /\ Len(out.results) = Len(manifests[OutKey].Packages)
  /\ \A i \in DOMAIN out.results :
       /\ manifests[OutKey].Packages[i].ContentHash \in DOMAIN bins
       /\ out.results[i].Content =
            bins[manifests[OutKey].Packages[i].ContentHash]
       /\ out.results[i].PkgPath = manifests[OutKey].Packages[i].PkgPath

\* C1: whenever a finished Generate call served a package from the manifest
\* cache or from the content cache, the Content it returned is what an
\* uncached generation over the package's current files would produce.
C1_CacheHitEqualsUncached ==
  out.kind = "results" =>
    \A i \in DOMAIN out.results :
      out.served[i] \in {"manifest", "content"} =>
        /\ ~out.expect[i].err
        /\ out.results[i].Content = out.expect[i].Content

HasGoMod(manifest) ==
  \E i \in DOMAIN manifest.ExtraFiles : manifest.ExtraFiles[i].Path = GoMod

\* C3 as stated: a manifest whose ExtraFiles include go.mod is rejected
\* after any change of the bytes of that go.mod.
C3_GoModAnyChangeRejected ==
  \A key \in DOMAIN manifests :
    (/\ HasGoMod(manifests[key])
     /\ fs[GoMod].exists
     /\ fs[GoMod].data # snaps[key][GoMod].data)
    => ~manifestValid(fs, manifests[key])

\* What manifestValid does guarantee for go.mod: the manifest is rejected
\* after a change of the bytes of go.mod that also changes the file's size
\* or its modification time.
C3_GoModMetadataChangeRejected ==
  \A key \in DOMAIN manifests :
    (/\ HasGoMod(manifests[key])
     /\ fs[GoMod].exists
     /\ fs[GoMod].data # snaps[key][GoMod].data
     /\ \/ Len(fs[GoMod].data) # Len(snaps[key][GoMod].data)
        \/ fs[GoMod].mtime # snaps[key][GoMod].mtime)
    => ~manifestValid(fs, manifests[key])

\* A manifest that was valid when written, whose go.mod was rewritten with
\* a new modification time and nothing else changed.
C3_Witness ==
  \E key \in DOMAIN manifests :
    /\ HasGoMod(manifests[key])
    /\ manifestValid(snaps[key], manifests[key])
    /\ fs[GoMod].exists
    /\ fs[GoMod].data # snaps[key][GoMod].data
    /\ fs[GoMod].mtime # snaps[key][GoMod].mtime
    /\ \A p \in Paths \ {GoMod} : fs[p] = snaps[key][p]
    /\ ~manifestValid(fs, manifests[key])

\* C4: when the bytes of a root-package file recorded in a manifest are
\* changed while its size and modification time stay the same,
\* manifestValid rejects the manifest.
C4_RootSameStampRejected ==
  \A key \in DOMAIN manifests :
    \A i \in DOMAIN manifests[key].Packages :
      \A j \in DOMAIN manifests[key].Packages[i].RootFiles :
        LET f == manifests[key].Packages[i].RootFiles[j].Path
        IN (/\ fs[f].exists
            /\ fs[f].data # snaps[key][f].data
            /\ Len(fs[f].data) = Len(snaps[key][f].data)
            /\ fs[f].mtime = snaps[key][f].mtime)
           => ~manifestValid(fs, manifests[key])

\* A manifest that was valid when written, one of whose root files changed
\* bytes under the same size and time: every stored file still matches its
\* metadata, and the manifest is rejected.
C4_Witness ==
  \E key \in DOMAIN manifests :
    /\ manifestValid(snaps[key], manifests[key])
    /\ \A i \in DOMAIN manifests[key].Packages :
         /\ FilesMatch(fs, manifests[key].Packages[i].Files)
         /\ FilesMatch(fs, manifests[key].Packages[i].RootFiles)
    /\ \E i \in DOMAIN manifests[key].Packages :
         \E j \in DOMAIN manifests[key].Packages[i].RootFiles :
           LET f == manifests[key].Packages[i].RootFiles[j].Path
           IN fs[f].exists /\ fs[f].data # snaps[key][f].data
    /\ ~manifestValid(fs, manifests[key])

\* C9: every ContentHash a manifest on disk references (every non-empty
\* ContentHash of its packages) has its blob in the content store.
C9_ManifestBlobsPresent ==
  \A key \in DOMAIN manifests :
    \A i \in DOMAIN manifests[key].Packages :
      manifests[key].Packages[i].ContentHash # <<>> =>
        manifests[key].Packages[i].ContentHash \in DOMAIN bins

\* ------------------------------------------------------------------------
\* Properties of the validators and of the hash functions
\* ------------------------------------------------------------------------

\* A stored (path, size, mtime) triple equals what the file has now.
TripleMatches(tree, f) ==
  /\ ~osStat(tree, f.Path).err
  /\ f.Path = Clean(f.Path)
  /\ f.Size = osStat(tree, f.Path).Size
  /\ f.ModTime = osStat(tree, f.Path).ModTime

\* The root hash recomputed over the given root files equals the stored.
RootHashMatches(tree, rootPaths, stored) ==
  /\ ~hashFiles(tree, sortedStrings(rootPaths)).err
  /\ hashFiles(tree, sortedStrings(rootPaths)).v = stored

\* The four conditions on a manifest: version, environment hash, extra
\* files, and the files, root files and root hash of every package.
ManifestConditions(tree, m) ==
  /\ m.Version = cacheVersion
  /\ m.EnvHash # <<>>
  /\ \A i \in DOMAIN m.ExtraFiles : TripleMatches(tree, m.ExtraFiles[i])
  /\ \A i \in DOMAIN m.Packages :
       /\ \A j \in DOMAIN m.Packages[i].Files :
            TripleMatches(tree, m.Packages[i].Files[j])
       /\ \A j \in DOMAIN m.Packages[i].RootFiles :
            TripleMatches(tree, m.Packages[i].RootFiles[j])
       /\ RootHashMatches(tree, PathsOf(m.Packages[i].RootFiles),
                          m.Packages[i].RootHash)

\* What manifestValid requires beyond them: at least one package, and for
\* every package a content hash, root files and a root hash.
ManifestComplete(m) ==
  /\ Len(m.Packages) > 0
  /\ \A i \in DOMAIN m.Packages :
       /\ m.Packages[i].ContentHash # <<>>
       /\ Len(m.Packages[i].RootFiles) > 0
       /\ m.Packages[i].RootHash # <<>>

\* C5 as stated: manifestValid accepts a manifest if and only if the
\* version is the cache version, the environment hash is non-empty, every
\* extra file matches its stored triple, and every package's files, root
\* files and recomputed root hash match the stored values.
C5_ManifestValidIffConditions ==
  out.kind = "manifestValid" =>
    (out.results[1] <=> ManifestConditions(fs, manifests[out.params]))

\* C5 as amended: if and only if those conditions hold and the manifest
\* has at least one package and every package has a non-empty content
\* hash, at least one root file and a non-empty root hash.
C5_ManifestValidIffConditionsAndComplete ==
  out.kind = "manifestValid" =>
    (out.results[1] <=> /\ ManifestConditions(fs, manifests[out.params])
                        /\ ManifestComplete(manifests[out.params]))

\* manifestValid accepted a manifest after an edit of the tree.
C5_Witness ==
  /\ out.kind = "manifestValid"
  /\ out.results = <<TRUE>>
  /\ edits > 0
  /\ ManifestComplete(manifests[out.params])

\* The two conditions on a cacheMeta: every listed file matches its stored
\* triple, and the root hash recomputed over the package's root files
\* equals the stored one.
MetaConditions(tree, meta, pkg) ==
  /\ \A i \in DOMAIN meta.Files : TripleMatches(tree, meta.Files[i])
  /\ RootHashMatches(tree, rootPackageFiles(pkg), meta.RootHash)

\* What cacheMetaMatches requires beyond them: the record is for this
\* cache version, package and options, lists exactly the package's current
\* files, and has a content hash and a root hash.
MetaForInputs(meta, pkg, opts, files) ==
  /\ meta.Version = cacheVersion
  /\ meta.PkgPath = pkg.PkgPath
  /\ meta.Tags = opts.Tags
  /\ meta.Prefix = opts.PrefixOutputFile
  /\ meta.HeaderHash = headerHash(opts.Header)
  /\ PathsOf(meta.Files) = [i \in DOMAIN files |-> Clean(files[i])]
  /\ Len(rootPackageFiles(pkg)) > 0
  /\ meta.RootHash # <<>>
  /\ meta.ContentHash # <<>>

\* C6 as stated: cacheMetaMatches accepts a stored cacheMeta if and only
\* if every listed file matches its stored triple and the recomputed root
\* hash equals the stored one.
C6_MetaMatchesIffConditions ==
  out.kind = "cacheMetaMatches" =>
    (out.results[1] <=> MetaConditions(fs, metas[out.params], FnPkg))

\* C6 as amended: if and only if those conditions hold and the record has
\* the cache version, the package path, tags, prefix and header hash of
\* the call, lists exactly the package's current files, and has non-empty
\* content and root hashes.
C6_MetaMatchesIffConditionsAndInputs ==
  out.kind = "cacheMetaMatches" =>
    (out.results[1] <=>
       /\ MetaConditions(fs, metas[out.params], FnPkg)
       /\ MetaForInputs(metas[out.params], FnPkg, gen.params.opts, FnFiles))

\* cacheMetaMatches accepted a record after an edit of the tree.
C6_Witness ==
  /\ out.kind = "cacheMetaMatches"
  /\ out.results = <<TRUE>>
  /\ edits > 0

\* The content hash of package app over a tree and options.
HashOver(tree, opts) ==
  contentHashForPaths(tree, FnPkg.PkgPath, opts, FnFiles).v

\* The trees that differ from the current one in the bytes of one file of
\* the package's transitive file set.
OneFileChanged ==
  {[fs EXCEPT ![c[1]].data = c[2]] :
     c \in {x \in Range(FnFiles) \X FileData : fs[x[1]].data # x[2]}}

\* C7 as stated: changing one input (the bytes of a file of the package,
\* the tags, the prefix, the header, the environment or the patterns)
\* gives the package a content hash that differs from the one before.
C7_AnyInputChangesContentHash ==
  out.kind = "hashes" =>
    /\ \A tree \in OneFileChanged :
         HashOver(tree, gen.params.opts) # out.results[1]
    /\ \A q \in FnParams :
         OneInputDiffers(gen.params, q) =>
           HashOver(fs, q.opts) # out.results[1]

\* C7 as amended: changing the bytes of a file of the package, the tags,
\* the prefix or the header changes the content hash; changing the
\* environment or the patterns leaves the content hash as it is and
\* changes the manifest key.
C7_FileOrOptionChangesContentHash ==
  out.kind = "hashes" =>
    /\ \A tree \in OneFileChanged :
         HashOver(tree, gen.params.opts) # out.results[1]
    /\ \A q \in FnParams :
         OneInputDiffers(gen.params, q) =>
           IF q.opts # gen.params.opts
           THEN HashOver(fs, q.opts) # out.results[1]
           ELSE /\ HashOver(fs, q.opts) = out.results[1]
                /\ manifestKey(Wd, q.env, q.patterns, q.opts)
                     # out.results[2]

\* The hashes were computed for inputs that have a neighbour in each
\* kind of change: a file, an option, the environment, the patterns.
C7_Witness ==
  /\ out.kind = "hashes"
  /\ OneFileChanged # {}
  /\ \E q \in FnParams :
       OneInputDiffers(gen.params, q) /\ q.opts # gen.params.opts
  /\ \E q \in FnParams :
       OneInputDiffers(gen.params, q) /\ q.env # gen.params.env
  /\ \E q \in FnParams :
       OneInputDiffers(gen.params, q) /\ q.patterns # gen.params.patterns

\* ------------------------------------------------------------------------
\* Properties of the writers
\* ------------------------------------------------------------------------

\* C8: at every point of writeCache, writeCacheMeta and writeManifestFile,
\* whatever fails and wherever a process stops, each destination file is
\* absent or holds all the bytes one call was given: never a part of them.
C8_DestinationNeverPartial ==
  \A d \in Dests : d \in DOMAIN disk => disk[d] \in Blobs

\* A destination holds complete bytes while a temp file of the same kind,
\* left behind by a failed or stopped write, holds only a part.
C8_Witness ==
  \E d \in Dests :
    /\ d \in DOMAIN disk
    /\ disk[d] \in Blobs
    /\ \E t \in DOMAIN disk \ Dests :
         t[1] = d[1] /\ disk[t] \notin Blobs
    /\ \A w \in Procs : writers[w].pc = "idle"

\* C10: when two processes write the same key, each through its own temp
\* file and a rename, the destination is at every moment absent or equal
\* to the complete bytes of the process whose rename came last.
C10_LastRenameWins ==
  \A d \in Dests :
    IF renames[d].by = {} THEN d \notin DOMAIN disk
    ELSE /\ d \in DOMAIN disk
         /\ disk[d] = renames[d].data
         /\ disk[d] = BlobOf(renames[d].last)

\* Both processes have renamed onto the same destination and finished.
C10_Witness ==
  \E d \in Dests :
    /\ renames[d].by = Procs
    /\ \A w \in Procs : writers[w].pc = "idle"
    /\ disk[d] = BlobOf(renames[d].last)

\* C11: when <key>.bin exists at the time writeCache is called, the call's
\* rename step leaves the destination with the bytes it had.
C11_ExistingDestinationKept ==
  [][\A w \in Procs :
       (/\ writers[w].pc = "rename"
        /\ writers[w].kind = "bin"
        /\ writers[w].existed
        /\ cachePath(StoreKey) \in DOMAIN disk
        /\ writers'[w].pc # "rename")
       => /\ cachePath(StoreKey) \in DOMAIN disk'
          /\ disk'[cachePath(StoreKey)] = disk[cachePath(StoreKey)]]_vars

\* A call of writeCache that found <key>.bin in place got an error from
\* os.Rename and is about to remove its temp file, the destination still
\* holding the other process's bytes.
C11_Witness ==
  \E w \in Procs :
    /\ writers[w].pc = "remove"
    /\ writers[w].kind = "bin"
    /\ writers[w].existed
    /\ ~writers[w].writeErr
    /\ cachePath(StoreKey) \in DOMAIN disk
    /\ disk[cachePath(StoreKey)] # writers[w].data

\* C12: a failure of a cache read or write inside the cache functions
\* never shows in what Generate returns: a package result carries an error
\* only if generation without a cache reports one, a package generated
\* afresh has the Content of a generation without a cache, and Generate
\* returns errors only when the loader fails.
C12_CacheFaultsNeverSurface ==
  /\ out.kind = "results" =>
       \A i \in DOMAIN out.results :
         /\ out.results[i].Errs => out.expect[i].err
         /\ out.served[i] = "fresh" =>
              out.results[i].Content = out.expect[i].Content
  /\ out.kind = "errors" =>
       load(fs, Wd, out.params.env, out.params.opts.Tags,
            out.params.patterns).err

\* A Generate call returned results without an error for every package
\* although a write failed: its manifest is not in the cache directory.
C12_Witness ==
  /\ out.kind = "results"
  /\ out.loaded
  /\ allGeneratedOK(out.results)
  /\ OutKey \notin DOMAIN manifests
  /\ faults > 0

\* C13: a Generate call that follows a finished call with the same
\* parameters, nothing having changed in between, returns for every
\* package the same Content and the same OutputPath as that call.
C13_SecondCallIdentical ==
  (out.kind = "results" /\ out.again) =>
    /\ Len(out.results) = Len(out.before)
    /\ \A i \in DOMAIN out.results :
         /\ out.results[i].PkgPath = out.before[i].PkgPath
         /\ out.results[i].Content = out.before[i].Content
         /\ out.results[i].OutputPath = out.before[i].OutputPath

\* The second of two such calls returned generated code for a package it
\* took from the content cache.
C13_Witness ==
  /\ out.kind = "results"
  /\ out.again
  /\ \E i \in DOMAIN out.results :
       /\ out.served[i] = "content"
       /\ Len(out.results[i].Content) > 0
       /\ out.results[i].Content = out.before[i].Content

\* C14: for a package without an injector generateForPackage returns
\* empty Content and no error, whatever the options.
C14_NoInjectorEmptyContent ==
  (/\ out.kind = "package"
   /\ ~HasInjector(fs, IF out.params.pkg = PkgApp THEN LoadedApp(fs)
                       ELSE LoadedDep(fs)))
  => /\ out.results[1].Content = <<>>
     /\ ~out.results[1].Errs

\* A package without an injector, generated under options with an empty
\* header, gave empty Content and no error.
C14_Witness ==
  /\ out.kind = "package"
  /\ out.params.pkg = PkgDep
  /\ out.params.opts.Header = <<>>
  /\ out.params.opts.Tags # <<>>
  /\ out.results[1].Content = <<>>
  /\ ~out.results[1].Errs

\* The package the last call of generateForPackage was for.
OutPkg == IF out.params.pkg = PkgApp THEN LoadedApp(fs) ELSE LoadedDep(fs)

Untouched(path) ==
  /\ (path \in DOMAIN last.after) = (path \in DOMAIN last.before)
  /\ path \in DOMAIN last.before => last.after[path] = last.before[path]

\* C16: in the gen command, the watch command's runGenerate and Serve's
\* generateAndCommit, a result of Generate that carries errors never leads
\* to a write of its OutputPath: the file at that path is not created and
\* a file that was there keeps its bytes.
C16_FailedResultNotWritten ==
  last.cmd \in {"gen", "watch", "serve"} =>
    \A i \in DOMAIN last.outs :
      last.outs[i].Errs => Untouched(last.outs[i].OutputPath)

\* A command has returned from results that carry both errors and content.
C16_Witness ==
  /\ last.cmd \in {"gen", "watch", "serve"}
  /\ \E i \in DOMAIN last.outs :
       /\ last.outs[i].Errs
       /\ Len(last.outs[i].Content) > 0
       /\ last.ioOK


\* The source generateForPackage synthesizes for the package and options
\* of its last call: the header, then the frame.
OutSrc == out.params.opts.Header \o frame(fs, OutPkg, out.params.opts)

\* C17: a call of generateForPackage in which the pretty-printer rejects
\* the synthesized source returns that source unformatted, header plus
\* frame, as Content, reports an error in Errs, and stores that content
\* under no key of the content cache.
C17_FormatErrorRawAndUncached ==
  (out.kind = "package" /\ formatSource(OutSrc).err)
  => /\ out.results[1].Errs
     /\ out.results[1].Content = OutSrc
     /\ \A k \in DOMAIN bins : bins[k] # OutSrc

\* The pretty-printer rejected the source of a package that has an
\* injector, so the frame is not empty.
C17_Witness ==
  /\ out.kind = "package"
  /\ formatSource(OutSrc).err
  /\ HasInjector(fs, OutPkg)
  /\ Len(out.results[1].Content) > Len(out.params.opts.Header)


FreshCacheFilled ==
  /\ Cardinality(DOMAIN manifests) = 1
  /\ DOMAIN bins # {}
  /\ \A i \in DOMAIN out.results :
       cacheMetaKey([PkgPath |-> out.results[i].PkgPath], out.params.opts)
         \in DOMAIN metas

DiffFailed ==
  \/ last.stage # "none"
  \/ last.errs
  \/ \E i \in DOMAIN last.outs : last.outs[i].Errs
  \/ (~last.ioOK /\ \E i \in DOMAIN last.outs : Len(last.outs[i].Content) > 0)

\* The content generated for some package differs from its file on disk.
DiffFound ==
  \E i \in DOMAIN last.outs :
    /\ Len(last.outs[i].Content) > 0
    /\ CurrentFile(last.before, last.outs[i].OutputPath)
         # last.outs[i].Content

\* C20: the diff command returns 2 whenever anything failed (profile
\* start, working directory, header file, Generate, a package, a diff),
\* else 1 when the generated content of some package differs from its
\* file, else 0.
C20_DiffExitCodes ==
  last.cmd = "diff" =>
    last.exit = IF DiffFailed THEN 2 ELSE IF DiffFound THEN 1 ELSE 0

\* The diff command returned after it could not read the header file.
C20_Witness ==
  /\ last.cmd = "diff"
  /\ last.stage = "header"
  /\ last.exit = ExitFailure

\* ------------------------------------------------------------------------
\* Serve: errors, ticks and cancellation.
\* ------------------------------------------------------------------------

\* C21: whenever a generation attempt or a state rebuild inside Serve
\* fails, Serve returns that error and the serve command terminates,
\* instead of continuing to poll: Serve is never back at its select after
\* an attempt of the call has failed.
C21_ServeExitsOnError ==
  serve.failed => serve.pc # "select"

\* An attempt failed, and Serve, not cancelled, is at its select again.
C21_Witness ==
  /\ serve.failed
  /\ serve.pc = "select"
  /\ serve.cancelled = ""
  /\ serve.result = ""

\* One entry of the tick's record per owning package, cached or generated.
AllOwnersHandled(tick) ==
  \A i \in DOMAIN tick.owners :
    \E j \in DOMAIN tick.done :
      /\ tick.done[j].pkg = tick.owners[i]
      /\ tick.done[j].how \in {"cached", "generated"}

\* C26: at every tick at which the watch state reports at least one
\* changed file, Serve makes a regeneration attempt in that same tick: a
\* full Generate, or for each owning package a cached write or a
\* per-package generation.  Stated when the tick is over and Serve is at
\* its select again.
C26_ChangedFilesRegenerate ==
  (serve.pc = "select" /\ Len(serve.tick.changed) > 0)
    => \/ serve.tick.attempt = "full"
       \/ /\ serve.tick.attempt = "packages"
          /\ Len(serve.tick.owners) > 0
          /\ AllOwnersHandled(serve.tick)

\* A tick with changed files is over: each of two owning packages was
\* handled.
C26_Witness ==
  /\ serve.pc = "select"
  /\ Len(serve.tick.changed) > 0
  /\ serve.tick.attempt = "packages"
  /\ Len(serve.tick.done) > 0
  /\ AllOwnersHandled(serve.tick)

\* C27: after the context passed to Serve is cancelled, Serve eventually
\* returns ctx.Err(), every generation call in progress returning; it
\* starts no regeneration after it has returned; and the serve command
\* maps context.Canceled to a success exit status.
C27_CancelReturns ==
  /\ (serve.cancelled # "") ~> (serve.pc = "returned")
  /\ [](serve.pc = "returned"
          => /\ serve.result = serve.cancelled
             /\ serve.result # ""
             /\ gen.pc = "idle"
             /\ serve.exit = IF serve.result = "canceled"
                             THEN ExitSuccess ELSE ExitFailure)
  /\ [][serve.pc = "returned"
          => /\ serve' = serve
             /\ gen' = gen
             /\ outputs' = outputs]_vars

\* Serve returned context.Canceled after a tick that regenerated, and the
\* command exited with success.
C27_Witness ==
  /\ serve.pc = "returned"
  /\ serve.result = "canceled"
  /\ serve.exit = ExitSuccess
  /\ serve.tick.attempt # "none"

\* ------------------------------------------------------------------------
\* The emitted injector at run time: the providers are called in plan
\* order; the cleanup of a provider that succeeded is registered at once;
\* on an error the registered cleanups run and the injector returns the
\* zero value and the error.
\* ------------------------------------------------------------------------

\* The providers of a plan: whether each returns a cleanup, an error.
ProviderKinds == [cleanup : BOOLEAN, err : BOOLEAN]

Plans == UNION {[1..n -> ProviderKinds] : n \in 1..MaxProviders}

\* The cleanups in first-registered-first-run order.
registerCleanup_FIFO(cleanups, i) == Append(cleanups, i)

\* The cleanups accumulate into a LIFO list.
registerCleanup(cleanups, i) == <<i>> \o cleanups

\* The injector is called.
InjStart(plan) ==
  /\ call = NoCall
  /\ call' = [fn |-> "injector", providers |-> plan, pc |-> "call",
              next |-> 1, cleanups |-> <<>>, invoked |-> <<>>,
              failedAt |-> 0, result |-> "none"]
  /\ UNCHANGED programVars

\* The next provider is called.  One that returns an error may fail: the
\* injector goes on to run the registered cleanups.  Else its cleanup, if
\* it returns one, is registered; after the last provider the injector
\* returns the value.
InjProvider(fails) ==
  /\ call.fn = "injector"
  /\ call.pc = "call"
  /\ LET i == call.next
         p == call.providers[i]
     IN /\ fails => p.err
        /\ call' = IF fails
                   THEN [call EXCEPT !.pc = "unwind", !.failedAt = i]
                   ELSE [call EXCEPT
                           !.cleanups = IF p.cleanup
                                        THEN registerCleanup(@, i) ELSE @,
                           !.next = i + 1,
                           !.pc = IF i = Len(call.providers)
                                  THEN "returned" ELSE @,
                           !.result = IF i = Len(call.providers)
                                      THEN "value" ELSE @]
  /\ UNCHANGED programVars

\* After an error: the next registered cleanup is invoked.
InjCleanup ==
  /\ call.fn = "injector"
  /\ call.pc = "unwind"
  /\ Len(call.cleanups) > 0
  /\ call' = [call EXCEPT !.invoked = Append(@, Head(call.cleanups)),
                          !.cleanups = Tail(@)]
  /\ UNCHANGED programVars

\* After an error and the cleanups: the zero value and the error.
InjReturnError ==
  /\ call.fn = "injector"
  /\ call.pc = "unwind"
  /\ Len(call.cleanups) = 0
  /\ call' = [call EXCEPT !.pc = "returned", !.result = "error"]
  /\ UNCHANGED programVars

NextInj ==
  \/ \E plan \in Plans : InjStart(plan)
  \/ \E fails \in BOOLEAN : InjProvider(fails)
  \/ InjCleanup
  \/ InjReturnError

SpecInj == Init /\ [][NextInj]_vars

\* The providers before the i-th that return a cleanup, last first.
RECURSIVE CleanupsBefore(_, _)
CleanupsBefore(plan, i) ==
  IF i <= 1 THEN <<>>
  ELSE (IF plan[i - 1].cleanup THEN <<i - 1>> ELSE <<>>)
       \o CleanupsBefore(plan, i - 1)

\* C22: when provider pi of an emitted injector returns an error, the
\* cleanups of p(i-1), ..., p1 are invoked in exactly that order, each
\* exactly once, before the injector returns the zero value and the
\* error; no cleanup of pi or of a later provider is invoked.
C22_CleanupsInReverse ==
  (call.fn = "injector" /\ call.failedAt > 0)
    => /\ call.invoked \o call.cleanups
            = CleanupsBefore(call.providers, call.failedAt)
       /\ call.pc = "returned"
            => /\ call.result = "error"
               /\ call.invoked = CleanupsBefore(call.providers,
                                                call.failedAt)

\* The third of three providers failed after two cleanups were
\* registered, and the injector has returned.
C22_Witness ==
  /\ call.fn = "injector"
  /\ call.pc = "returned"
  /\ call.failedAt = 3
  /\ call.invoked = <<2, 1>>

\* ------------------------------------------------------------------------
\* funcOutput: the output signature of a provider function.
\* ------------------------------------------------------------------------

\* Result types: the cleanup type func(), the error type, and one type
\* that is neither.
ResultTypes == {"int", "cleanup", "error"}

Signatures == UNION {[1..n -> ResultTypes] : n \in 0..MaxResults}

\* funcOutput that takes an error for the second of three results.
funcOutput_SecondError(results) ==
  IF Len(results) = 0 \/ Len(results) > 3
  THEN [ok |-> FALSE, out |-> "", cleanup |-> FALSE, err |-> FALSE]
  ELSE IF Len(results) = 1
  THEN [ok |-> TRUE, out |-> results[1], cleanup |-> FALSE, err |-> FALSE]
  ELSE IF Len(results) = 2
  THEN [ok |-> results[2] \in {"cleanup", "error"}, out |-> results[1],
        cleanup |-> results[2] = "cleanup", err |-> results[2] = "error"]
  ELSE [ok |-> results[2] \in {"cleanup", "error"} /\ results[3] = "error",
        out |-> results[1], cleanup |-> TRUE, err |-> TRUE]

\* funcOutput: by the number of results.  One: the output.  Two: the
\* second is the error or the cleanup.  Three: the second is the cleanup
\* and the third the error.  None, or more than three: an error.
\* Returns [ok, out, cleanup, err]; out and the flags count when ok.
funcOutput(results) ==
  LET failed == [ok |-> FALSE, out |-> "", cleanup |-> FALSE, err |-> FALSE]
  IN IF Len(results) = 0 THEN failed
     ELSE IF Len(results) = 1
     THEN [ok |-> TRUE, out |-> results[1], cleanup |-> FALSE,
           err |-> FALSE]
     ELSE IF Len(results) = 2
     THEN IF results[2] = "error"
          THEN [ok |-> TRUE, out |-> results[1], cleanup |-> FALSE,
                err |-> TRUE]
          ELSE IF results[2] = "cleanup"
          THEN [ok |-> TRUE, out |-> results[1], cleanup |-> TRUE,
                err |-> FALSE]
          ELSE failed
     ELSE IF Len(results) = 3
     THEN IF results[2] # "cleanup" THEN failed
          ELSE IF results[3] # "error" THEN failed
          ELSE [ok |-> TRUE, out |-> results[1], cleanup |-> TRUE,
                err |-> TRUE]
     ELSE failed

\* funcOutput is called on a signature.
FuncOutputCall(results) ==
  /\ call = NoCall
  /\ call' = [fn |-> "funcOutput", results |-> results,
              got |-> funcOutput(results)]
  /\ UNCHANGED programVars

\* The call is forgotten.
CallDone ==
  /\ call # NoCall
  /\ call' = NoCall
  /\ UNCHANGED programVars

NextSig ==
  \/ \E results \in Signatures : FuncOutputCall(results)
  \/ CallDone

SpecSig == Init /\ [][NextSig]_vars

\* The four result lists of a provider function, T any type.
ShapeT(results) == Len(results) = 1
ShapeTCleanup(results) == Len(results) = 2 /\ results[2] = "cleanup"
ShapeTError(results) == Len(results) = 2 /\ results[2] = "error"
ShapeTCleanupError(results) ==
  Len(results) = 3 /\ results[2] = "cleanup" /\ results[3] = "error"

\* C23: funcOutput accepts exactly the result lists (T), (T, cleanup),
\* (T, error) and (T, cleanup, error), setting its cleanup and err flags
\* accordingly; it rejects no results, a second result that is neither
\* cleanup nor error, (T, error, error), a third result that is not
\* error, and more than three results.
C23_FuncOutputShapes ==
  call.fn = "funcOutput"
    => LET r == call.results
       IN /\ call.got.ok = \/ ShapeT(r) \/ ShapeTCleanup(r)
                           \/ ShapeTError(r) \/ ShapeTCleanupError(r)
          /\ call.got.ok
               => /\ call.got.out = r[1]
                  /\ call.got.cleanup = (ShapeTCleanup(r)
                                         \/ ShapeTCleanupError(r))
                  /\ call.got.err = (ShapeTError(r)
                                     \/ ShapeTCleanupError(r))

\* (T, error, error) was given and rejected.
C23_Witness ==
  /\ call.fn = "funcOutput"
  /\ call.results = <<"int", "error", "error">>
  /\ ~call.got.ok

\* ------------------------------------------------------------------------
\* findInjectorBuild: the wire.Build call of an injector stub.
\* ------------------------------------------------------------------------

\* Statements: the expression statement wire.Build(...), the expression
\* statement panic(wire.Build(...)), another call as an expression
\* statement, a return, an assignment.
StmtKinds == {"build", "panicBuild", "call", "return", "assign"}

\* A function without a body, and the bodies of up to MaxStmts
\* statements.
NilBody == [nil |-> TRUE, list |-> <<>>]

Bodies ==
  {NilBody} \cup {[nil |-> FALSE, list |-> l] :
                    l \in UNION {[1..n -> StmtKinds] : n \in 0..MaxStmts}}

\* The scan of the statements: at which one the Build call was found, and
\* whether a statement other than the Build call and a return after it
\* was seen.
RECURSIVE scanBody(_, _, _, _)
scanBody(list, i, found, invalid) ==
  IF i > Len(list) THEN [found |-> found, invalid |-> invalid]
  ELSE IF list[i] \in {"build", "panicBuild"}
  THEN scanBody(list, i + 1, IF found = 0 THEN i ELSE found,
                invalid \/ found # 0 \/ i > 1)
  ELSE IF list[i] = "return"
  THEN scanBody(list, i + 1, found,
                invalid \/ found = 0 \/ i < Len(list))
  ELSE scanBody(list, i + 1, found, TRUE)

\* findInjectorBuild that never reports an error.
findInjectorBuild_Lenient(body) ==
  [call |-> IF body.nil THEN 0 ELSE scanBody(body.list, 1, 0, FALSE).found,
   err |-> FALSE]

\* findInjectorBuild: no call for a function without a body or without a
\* Build call; an error when the Build call is not alone but for a return
\* after it; else the Build call.
\* Returns [call, err]: call is the position of the statement, 0 for none.
findInjectorBuild(body) ==
  IF body.nil THEN [call |-> 0, err |-> FALSE]
  ELSE LET scan == scanBody(body.list, 1, 0, FALSE)
       IN IF scan.found = 0 THEN [call |-> 0, err |-> FALSE]
          ELSE IF scan.invalid THEN [call |-> 0, err |-> TRUE]
          ELSE [call |-> scan.found, err |-> FALSE]

\* findInjectorBuild is called on a function declaration.
FindInjectorBuildCall(body) ==
  /\ call = NoCall
  /\ call' = [fn |-> "findInjectorBuild", body |-> body,
              got |-> findInjectorBuild(body)]
  /\ UNCHANGED programVars

NextBuild ==
  \/ \E body \in Bodies : FindInjectorBuildCall(body)
  \/ CallDone

SpecBuild == Init /\ [][NextBuild]_vars

IsBuild(stmt) == stmt \in {"build", "panicBuild"}

\* C24: findInjectorBuild returns the Build call and no error when the
\* body is wire.Build(...) as an expression statement, bare or wrapped in
\* panic(...), optionally followed by a return; no call and no error when
\* the body is nil or holds no Build call; an error when a Build call is
\* mixed with any other statement.
C24_FindInjectorBuild ==
  call.fn = "findInjectorBuild"
    => LET l == call.body.list
           hasBuild == \E i \in DOMAIN l : IsBuild(l[i])
           stub == \/ Len(l) = 1 /\ IsBuild(l[1])
                   \/ Len(l) = 2 /\ IsBuild(l[1]) /\ l[2] = "return"
       IN /\ stub => call.got = [call |-> 1, err |-> FALSE]
          /\ (call.body.nil \/ ~hasBuild)
               => call.got = [call |-> 0, err |-> FALSE]
          /\ (hasBuild /\ ~stub) => call.got.err

\* A Build call followed by another call was given, and an error
\* returned.
C24_Witness ==
  /\ call.fn = "findInjectorBuild"
  /\ call.body.list = <<"build", "call">>
  /\ call.got.err

\* ------------------------------------------------------------------------
\* Cache entries and failed generations.
\* ------------------------------------------------------------------------

\* C25: a cache entry of any kind is created only by a generation that
\* succeeded: after a call of generateForPackage that returned errors the
\* cache holds no metadata file for that package and those options, and
\* no blob with the content the call returned.  (The tree does not change
\* here, so every call for that package and those options fails alike.)
C25_NoEntryForFailedPackage ==
  (out.kind = "package" /\ out.results[1].Errs)
    => /\ cacheMetaKey(OutPkg, out.params.opts) \notin DOMAIN metas
       /\ \A k \in DOMAIN bins : bins[k] # out.results[1].Content

\* A call returned errors, and the metadata file of its package and
\* options is in the cache.
C25_Witness ==
  /\ out.kind = "package"
  /\ out.results[1].Errs
  /\ HasInjector(fs, OutPkg)
  /\ cacheMetaKey(OutPkg, out.params.opts) \in DOMAIN metas


\* ------------------------------------------------------------------------
\* Failed writes of the cache files
\* ------------------------------------------------------------------------

\* The calls of writeCache, writeCacheMeta and writeManifestFile by two
\* processes, each call running to its return.
NextWrite ==
  \/ \E w \in Procs, kind \in Kinds :
       StartWrite(w, kind, BlobOf(w))
  \/ \E w \in Procs, ok \in BOOLEAN : MkdirAll(w, ok)
  \/ \E w \in Procs, ok \in BOOLEAN : Marshal(w, ok)
  \/ \E w \in Procs, ok \in BOOLEAN : CreateTemp(w, ok)
  \/ \E w \in Procs, n \in 0..2 : TmpWrite(w, n)
  \/ \E w \in Procs, ok \in BOOLEAN : TmpClose(w, ok)
  \/ \E w \in Procs, ok \in BOOLEAN : Rename(w, ok)
  \/ \E w \in Procs, ok \in BOOLEAN : RemoveTemp(w, ok)

SpecWrite == Init /\ [][NextWrite]_vars

\* A temp file of the cache directory.
IsTempFile(f) == Len(f) = 3

\* C28: when the write, the close or the rename of the temp file fails in
\* writeCache, writeCacheMeta or writeManifestFile, the call returns with
\* its temp file gone from the disk, and no step other than a rename that
\* succeeds changes a destination file.
C28_FailedWriteCleansUp ==
  [][/\ \A w \in Procs :
          (writers[w].pc = "remove" /\ writers'[w].pc = "idle")
            => writers[w].tmp \notin DOMAIN disk'
     /\ \A d \in Dests :
          ReadDest(disk', d) # ReadDest(disk, d)
            => \E w \in Procs : /\ writers[w].pc = "rename"
                                /\ writers'[w].pc = "idle"
                                /\ DestOf(writers[w].kind) = d]_vars

\* Every call has returned, and the temp file of a call whose write, close
\* or rename failed is still on the disk.
C28_Witness ==
  /\ \A w \in Procs : writers[w].pc = "idle"
  /\ \E f \in DOMAIN disk : IsTempFile(f)


\* ------------------------------------------------------------------------
\* The manifest key and the key rebuilt from a stored manifest
\* ------------------------------------------------------------------------

\* Longest env and patterns list of a call.
MaxList == 2

\* A second environment entry.
EnvB == <<7, 4>>

\* The lists of at most MaxList entries of a set.
ListsOf(S) == UNION {[1..n -> S] : n \in 0..MaxList}

\* b holds the entries of a, each as often, in any order.
IsPermutation(a, b) ==
  /\ Len(a) = Len(b)
  /\ \A x \in Range(a) \cup Range(b) :
       Cardinality({i \in DOMAIN a : a[i] = x})
         = Cardinality({i \in DOMAIN b : b[i] = x})

\* manifestKey(wd, env, patterns, opts) next to the manifest that
\* writeManifest stores for (wd, env2, patterns2, opts) and the packages of
\* the tree, env2 and patterns2 being env and patterns in another order.
ManifestKeyCall(wd, opts, env2, patterns2) ==
  /\ call = NoCall
  /\ \E stored \in {writeManifest(fs, metas, EmptyMap, wd, env2, patterns2,
                                  opts, <<LoadedApp(fs)>>, "none").manifests} :
       \E env \in ListsOf({EnvA, EnvB}), patterns \in ListsOf({PatApp, PatAll}) :
         /\ IsPermutation(env, env2)
         /\ IsPermutation(patterns, patterns2)
         /\ call' = [fn |-> "manifestKey", wd |-> wd, opts |-> opts,
                     env |-> env, patterns |-> patterns,
                     env2 |-> env2, patterns2 |-> patterns2,
                     key |-> manifestKey(wd, env, patterns, opts),
                     stored |-> stored]
  /\ UNCHANGED programVars

NextKey ==
  \/ \E wd \in {Wd, Wd \o DotSeg}, opts \in FnOpts,
        env2 \in ListsOf({EnvA, EnvB}), patterns2 \in ListsOf({PatApp, PatAll}) :
       ManifestKeyCall(wd, opts, env2, patterns2)
  \/ CallDone

SpecKey == Init /\ [][NextKey]_vars

\* C29: whatever the order of env and of patterns, the manifest that
\* writeManifest stores is stored under manifestKey(wd, env, patterns,
\* opts), and manifestKeyFromManifest rebuilds that same key from it.
C29_ManifestKeyRoundTrip ==
  call.fn = "manifestKey" =>
    /\ DOMAIN call.stored = {call.key}
    /\ manifestKeyFromManifest(call.stored[call.key]) = call.key

\* A manifest was stored for an env and patterns that are both in another
\* order than the ones the key was computed from.
C29_Witness ==
  /\ call.fn = "manifestKey"
  /\ call.env # call.env2
  /\ call.patterns # call.patterns2
  /\ call.opts # DefaultOpts
  /\ call.key \in DOMAIN call.stored


\* ------------------------------------------------------------------------
\* packageFiles on import graphs
\* ------------------------------------------------------------------------

\* Packages of an import graph.
MaxPkgs == 3

\* A nil *packages.Package.
NilPkg == 0

GraphPkgs == 1..MaxPkgs

\* The keys an Imports map may have: two for the root, one for the others.
ImportKeys(n) == IF n = 1 THEN {"a", "b"} ELSE {"a"}

\* Imports: a map from some keys to a package of the graph or to nil.
ImportMaps(n) ==
  UNION {[K -> GraphPkgs \cup {NilPkg}] : K \in SUBSET ImportKeys(n)}

\* The package n of a graph: every second package has CompiledGoFiles,
\* listed out of order, next to its GoFiles.
GraphPkg(graph, n) ==
  [PkgPath |-> <<5, n>>,
   GoFiles |-> << <<n, 1>> >>,
   CompiledGoFiles |-> IF n % 2 = 0
                       THEN << <<n, 2>>, <<n, 1>> >> ELSE <<>>,
   Imports |-> graph.imports[n]]

Graphs ==
  [imports : {[n \in GraphPkgs |-> IF n = 1 THEN root ELSE others[n]] :
                root \in ImportMaps(1),
                others \in [GraphPkgs \ {1} -> ImportMaps(2)]}]

\* The orders in which a range loop may give the entries of a map.
RangeOrders(m) ==
  {f \in [1..Cardinality(DOMAIN m) -> DOMAIN m] :
     \A i, j \in DOMAIN f : f[i] = f[j] => i = j}

\* seen[p.PkgPath] with the test left out.
isSeen_Never(seen, p) == FALSE

\* _, ok := seen[p.PkgPath]
isSeen(seen, p) == p.PkgPath \in seen

\* packageFiles(root): the stack holds the root.
PackageFilesCall(graph) ==
  /\ call = NoCall
  /\ call' = [fn |-> "packageFiles", graph |-> graph, pc |-> "loop",
              stack |-> <<1>>, seen |-> {}, files |-> <<>>]
  /\ UNCHANGED programVars

\* One turn of the loop: pop the last entry; a nil or a seen package is
\* skipped; else the package is marked, its files are appended and its
\* imports are pushed in the order the map gives them.
PackageFilesStep ==
  /\ call.fn = "packageFiles"
  /\ call.pc = "loop"
  /\ Len(call.stack) > 0
  /\ LET n == call.stack[Len(call.stack)]
         rest == SubSeq(call.stack, 1, Len(call.stack) - 1)
         p == GraphPkg(call.graph, n)
     IN IF n = NilPkg \/ isSeen(call.seen, p)
        THEN call' = [call EXCEPT !.stack = rest]
        ELSE \E order \in RangeOrders(p.Imports) :
               call' = [call EXCEPT
                 !.stack = rest \o [i \in DOMAIN order |->
                                      p.Imports[order[i]]],
                 !.seen = @ \cup {p.PkgPath},
                 !.files = @ \o (IF Len(p.CompiledGoFiles) > 0
                                 THEN p.CompiledGoFiles ELSE p.GoFiles)]
  /\ UNCHANGED programVars

\* The stack is empty: packageFiles returns the list.
PackageFilesReturn ==
  /\ call.fn = "packageFiles"
  /\ call.pc = "loop"
  /\ Len(call.stack) = 0
  /\ call' = [call EXCEPT !.pc = "returned"]
  /\ UNCHANGED programVars

\* What cacheKeyForPackage makes of the list packageFiles returned for the
\* root of a graph: the list sorted, and its content hash.
SortedFiles(files) == sortedStrings(files)
FilesHash(tree, graph, files) ==
  contentHashForPaths(tree, GraphPkg(graph, 1).PkgPath, DefaultOpts,
                      SortedFiles(files))

\* The result is taken.
PackageFilesDone ==
  /\ call.fn = "packageFiles"
  /\ call.pc = "returned"
  /\ call' = NoCall
  /\ UNCHANGED programVars

NextFiles ==
  \/ \E graph \in Graphs : PackageFilesCall(graph)
  \/ PackageFilesStep
  \/ PackageFilesReturn
  \/ PackageFilesDone

\* The loop runs without waiting for anything.
SpecFiles ==
  /\ Init /\ [][NextFiles]_vars
  /\ WF_vars(PackageFilesStep) /\ WF_vars(PackageFilesReturn)

\* The packages that can be reached from the packages of S by imports.
RECURSIVE Reachable(_, _)
Reachable(graph, S) ==
  LET next == S \cup {t \in GraphPkgs :
                        \E n \in S : \E k \in DOMAIN graph.imports[n] :
                          graph.imports[n][k] = t}
  IN IF next = S THEN S ELSE Reachable(graph, next)

\* The files of the packages that can be reached from the root.
ExpectedFiles(graph) ==
  UNION {LET p == GraphPkg(graph, n)
         IN IF p.CompiledGoFiles # <<>> THEN Range(p.CompiledGoFiles)
            ELSE Range(p.GoFiles) : n \in Reachable(graph, {1})}

\* The members of a set in some order.
RECURSIVE SeqOf(_)
SeqOf(S) ==
  IF S = {} THEN <<>>
  ELSE LET x == CHOOSE y \in S : TRUE IN <<x>> \o SeqOf(S \ {x})

PackageFilesReturned == call.fn = "packageFiles" /\ call.pc = "returned"

\* C30: packageFiles returns on every import graph, cycles, nil imports and
\* a package under two keys included; the list it returns holds the files
\* (CompiledGoFiles if there are any, else GoFiles) of every package that
\* can be reached, each once; and the sorted list and the content hash are
\* those of the graph, whatever order the imports were walked in.
C30_PackageFilesTerminates ==
  /\ (call.fn = "packageFiles") ~> PackageFilesReturned
  /\ [](PackageFilesReturned =>
          /\ Range(call.files) = ExpectedFiles(call.graph)
          /\ Len(call.files) = Cardinality(ExpectedFiles(call.graph))
          /\ SortedFiles(call.files)
               = SortedFiles(SeqOf(ExpectedFiles(call.graph)))
          /\ FilesHash(fs, call.graph, call.files)
               = FilesHash(fs, call.graph,
                           SeqOf(ExpectedFiles(call.graph))))

\* packageFiles has returned on a graph where the root imports package 2
\* under two keys, package 2 imports package 3 and package 3 imports the
\* root, the files of 3 packages in a list that is not sorted.
C30_Witness ==
  /\ PackageFilesReturned
  /\ call.graph.imports[1] = [k \in {"a", "b"} |-> 2]
  /\ call.graph.imports[2] = [k \in {"a"} |-> 3]
  /\ call.graph.imports[3] = [k \in {"a"} |-> 1]
  /\ call.files # SortedFiles(call.files)
  /\ Len(call.files) > 3

\* ------------------------------------------------------------------------
\* A file added to a package directory
\* ------------------------------------------------------------------------

\* A manifest that was valid when written and records package app; since
\* then a second file was created in the directory of app and no recorded
\* file was touched.
FileAddedSince(key) ==
  /\ manifestValid(snaps[key], manifests[key])
  /\ \E i \in DOMAIN manifests[key].Packages :
       manifests[key].Packages[i].PkgPath = PkgApp
  /\ ~snaps[key][AppExtra].exists
  /\ fs[AppExtra].exists
  /\ \A p \in Paths \ {AppExtra} : fs[p] = snaps[key][p]

\* C31: after a new Go file is added to the directory of a package of a
\* manifest, every recorded file left as it was, manifestValid rejects the
\* manifest.
C31_AddedFileRejectsManifest ==
  \A key \in DOMAIN manifests :
    FileAddedSince(key) => ~manifestValid(fs, manifests[key])

\* The loader now lists the new file for package app, and manifestValid
\* still accepts the manifest written before the file was there.
C31_Witness ==
  \E key \in DOMAIN manifests :
    /\ FileAddedSince(key)
    /\ AppExtra \in Range(LoadedApp(fs).GoFiles)
    /\ manifestValid(fs, manifests[key])

\* ------------------------------------------------------------------------
\* cacheKeyForPackage while the source tree is being written
\* ------------------------------------------------------------------------

\* cacheKeyForPackage(pkg, opts), up to the test of the stored metadata:
\* when it matches, the stored ContentHash is returned.  hashed is history:
\* the tree as it was when the contents were hashed.
CacheKeyCall(pkg) ==
  /\ call = NoCall
  /\ gen.pc = "idle"
  /\ LET files == sortedStrings(packageFiles(pkg))
         stored == readCacheMeta(metas, cacheMetaKey(pkg, DefaultOpts), "none")
         hit == stored.ok /\ cacheMetaMatches(fs, stored.v, pkg, DefaultOpts,
                                              files)
     IN /\ Len(files) > 0
        /\ call' = [fn |-> "cacheKeyForPackage", pkg |-> pkg, files |-> files,
                    pc |-> IF hit THEN "returned" ELSE "hash",
                    fast |-> hit, err |-> FALSE,
                    key |-> IF hit THEN stored.v.ContentHash ELSE <<>>,
                    contentHash |-> <<>>, rootHash |-> <<>>,
                    hashed |-> fs, written |-> FALSE]
  /\ UNCHANGED programVars

\* contentHashForFiles: the files are read and hashed.
CacheKeyContentHash ==
  /\ call.fn = "cacheKeyForPackage"
  /\ call.pc = "hash"
  /\ \E h \in {contentHashForPaths(fs, call.pkg.PkgPath, DefaultOpts,
                                   call.files)} :
       call' = [call EXCEPT !.pc = IF h.err THEN "returned" ELSE "root",
                            !.err = h.err,
                            !.contentHash = h.v,
                            !.hashed = fs]
  /\ UNCHANGED programVars

\* hashFiles over the sorted files of the root package.
CacheKeyRootHash ==
  /\ call.fn = "cacheKeyForPackage"
  /\ call.pc = "root"
  /\ \E h \in {hashFiles(fs, sortedStrings(rootPackageFiles(call.pkg)))} :
       call' = [call EXCEPT !.pc = IF h.err THEN "returned" ELSE "stat",
                            !.err = h.err,
                            !.rootHash = h.v]
  /\ UNCHANGED programVars

\* buildCacheFiles stats the files; the metadata is written with the two
\* hashes computed before, and the content hash is returned.
CacheKeyStat ==
  /\ call.fn = "cacheKeyForPackage"
  /\ call.pc = "stat"
  /\ \E metaFiles \in {buildCacheFiles(fs, call.files)} :
       IF metaFiles.err
       THEN /\ call' = [call EXCEPT !.pc = "returned", !.err = TRUE]
            /\ UNCHANGED metas
       ELSE /\ call' = [call EXCEPT !.pc = "returned", !.written = TRUE,
                                    !.key = call.contentHash]
            /\ metas' = writeCacheMeta(
                 metas, cacheMetaKey(call.pkg, DefaultOpts),
                 [Version |-> cacheVersion,
                  PkgPath |-> call.pkg.PkgPath,
                  Tags |-> DefaultOpts.Tags,
                  Prefix |-> DefaultOpts.PrefixOutputFile,
                  HeaderHash |-> headerHash(DefaultOpts.Header),
                  Files |-> metaFiles.v,
                  ContentHash |-> call.contentHash,
                  RootHash |-> call.rootHash], "none")
  /\ UNCHANGED <<disk, writers, temps, renames, watch, cmdVars>>
  /\ UNCHANGED <<fs, edits, bins, manifests, gen, out, loads, prev, snaps,
                 faults>>

\* The caller takes the result.
CacheKeyReturn ==
  /\ call.fn = "cacheKeyForPackage"
  /\ call.pc = "returned"
  /\ call' = NoCall
  /\ UNCHANGED programVars

\* Calls of cacheKeyForPackage for the two packages, one at a time, while
\* another process writes source files at any moment.
NextMeta ==
  \/ \E p \in Paths, d \in FileData : WriteFile(p, d)
  \/ \E pkgPath \in {PkgApp, PkgDep} :
       CacheKeyCall(IF pkgPath = PkgApp THEN LoadedApp(fs)
                    ELSE LoadedDep(fs))
  \/ CacheKeyContentHash
  \/ CacheKeyRootHash
  \/ CacheKeyStat
  \/ CacheKeyReturn

SpecMeta == Init /\ [][NextMeta]_vars

\* C32: the cacheMeta that cacheKeyForPackage writes holds the size and
\* modification time of the file contents its ContentHash was computed
\* from, also when a file is written between the hashing and the stat; and
\* a call that returns the stored ContentHash because the metadata matches
\* returns the hash of the contents the files have at that call.
C32_MetaDescribesHashedContents ==
  call.fn = "cacheKeyForPackage" =>
    /\ call.written =>
         metas[cacheMetaKey(call.pkg, DefaultOpts)].Files
           = buildCacheFiles(call.hashed, call.files).v
    /\ call.fast =>
         call.key = contentHashForPaths(call.hashed, call.pkg.PkgPath,
                                        DefaultOpts, call.files).v

\* A call returned the stored ContentHash on the fast path, and that hash
\* is not the hash of the files as they were at the call: the metadata was
\* written by an earlier call during which a file was rewritten.
C32_Witness ==
  /\ call.fn = "cacheKeyForPackage"
  /\ call.fast
  /\ call.key # contentHashForPaths(call.hashed, call.pkg.PkgPath,
                                    DefaultOpts, call.files).v
  /\ metas[cacheMetaKey(call.pkg, DefaultOpts)].Files
       = buildCacheFiles(call.hashed, call.files).v

\* ------------------------------------------------------------------------
\* Serve: a changed file that several packages of the manifest list
\* ------------------------------------------------------------------------

\* The packages of a manifest whose Files list one of the paths.
ListingPackages(manifest, paths) ==
  {manifest.Packages[i].PkgPath : i \in
     {k \in DOMAIN manifest.Packages :
        \E j \in DOMAIN manifest.Packages[k].Files :
          Clean(manifest.Packages[k].Files[j].Path) \in
            {Clean(paths[n]) : n \in DOMAIN paths}}}

\* The packages the loop of a tick has handled.
HandledPackages(tick) == {tick.done[i].pkg : i \in DOMAIN tick.done}

\* C33: when a tick of Serve that went package by package is over, every
\* package of the manifest whose file set holds one of the changed files
\* was regenerated or rewritten from the cache in that tick.
C33_SharedFileRegeneratesAll ==
  (serve.pc = "select" /\ serve.tick.plan = "packages")
    => ListingPackages(serve.manifest, serve.tick.changed)
         \subseteq HandledPackages(serve.tick)

\* A tick is over in which the one changed file is listed by two packages
\* of the manifest and only one of them was handled; the output file of
\* the other is not what a generation over the current files gives.
C33_Witness ==
  /\ serve.pc = "select"
  /\ serve.tick.plan = "packages"
  /\ Len(serve.tick.changed) = 1
  /\ Cardinality(ListingPackages(serve.manifest, serve.tick.changed)) = 2
  /\ Cardinality(HandledPackages(serve.tick)) = 1
  /\ \E i \in DOMAIN serve.manifest.Packages :
       LET e == serve.manifest.Packages[i]
       IN /\ e.PkgPath \notin HandledPackages(serve.tick)
          /\ e.OutputPath \in DOMAIN outputs
          /\ outputs[e.OutputPath]
               # ExpectedFor(fs, serve.params, e.PkgPath).Content

\* ------------------------------------------------------------------------
\* Serve: the manifest written by updateManifestPackage
\* ------------------------------------------------------------------------

\* A tick of Serve that went package by package is over, the manifest on
\* disk is the one Serve holds, and it was written in that tick, after the
\* last change of a file.
ServeManifestPersisted ==
  /\ serve.pc = "select"
  /\ serve.tick.plan = "packages"
  /\ Len(serve.tick.done) > 0
  /\ LET key == manifestKeyFromManifest(serve.manifest)
     IN /\ key \in DOMAIN manifests
        /\ manifests[key] = serve.manifest
        /\ snaps[key] = fs

\* C34: a manifest that Serve has written through updateManifestPackage
\* is accepted by manifestValid while no file changes: every entry has a
\* PkgPath, a ContentHash, RootFiles and a RootHash.
C34_ServeManifestValid ==
  ServeManifestPersisted =>
    /\ manifestValid(fs, serve.manifest)
    /\ \A i \in DOMAIN serve.manifest.Packages :
         LET e == serve.manifest.Packages[i]
         IN /\ e.PkgPath # <<>>
            /\ e.ContentHash # <<>>
            /\ e.RootFiles # <<>>
            /\ e.RootHash # <<>>

\* Serve regenerated a package and wrote the manifest with the entry of
\* manifestPackageFromLoaded, which has no root files and no root hash:
\* manifestValid rejects the manifest that was just written.
C34_Witness ==
  /\ ServeManifestPersisted
  /\ \E i \in DOMAIN serve.tick.done : serve.tick.done[i].how = "generated"
  /\ \E i \in DOMAIN serve.manifest.Packages :
       /\ serve.manifest.Packages[i].ContentHash # <<>>
       /\ serve.manifest.Packages[i].RootFiles = <<>>
  /\ ~manifestValid(fs, serve.manifest)

\* ------------------------------------------------------------------------
\* Serve: a file written while a regeneration is in progress
\* ------------------------------------------------------------------------

\* Another process modifies a source file between the ticks of Serve.
ModifyFile(p, d) == fs[p].exists /\ WriteFile(p, d)

\* Another process modifies a source file while Serve is between the
\* return of Generate and the commit and serveStateFor that follow it.
ConcurrentWrite(p, d) ==
  /\ serve.pc \in {"call", "full"}
  /\ gen.pc = "idle"
  /\ out.kind = "results"
  /\ edits < MaxEdits
  /\ fs[p].exists
  /\ fs[p].data # d
  /\ fs' = [fs EXCEPT ![p] = [exists |-> TRUE, data |-> d,
                              mtime |-> edits + 1]]
  /\ edits' = edits + 1
  /\ UNCHANGED <<storeVars, cmdVars>>
  /\ UNCHANGED <<bins, metas, manifests, gen, out, loads, prev, snaps,
                 faults>>

\* Serve with source files modified between its ticks and during them.
NextRace ==
  \/ \E p \in Paths, d \in FileData : ModifyFile(p, d)
  \/ \E p \in Paths, d \in FileData : ConcurrentWrite(p, d)
  \/ ServeCall(ServeParams)
  \/ \E unknown \in BOOLEAN, early \in BOOLEAN : Tick(unknown, early)
  \/ ServeGenerate
  \/ GenPackage("none")
  \/ GenFinish("none")
  \/ ServeCommit
  \/ ServePackage("none", "none")
  \/ ServeEnd

SpecRace == Init /\ [][NextRace]_vars

\* The output file of a package holds what a generation over the current
\* tree returns for it, when that generation succeeds with some content.
OutputCurrent(pkg) ==
  LET e == ExpectedFor(fs, serve.params, pkg.PkgPath)
      path == OutputPathFor(detectOutputDir(pkg.GoFiles).v, serve.params.opts)
  IN (~e.err /\ Len(e.Content) > 0)
       => (path \in DOMAIN outputs /\ outputs[path] = e.Content)

\* Nothing the watch state of Serve holds differs from the tree: the next
\* tick finds no changed file.
WatchQuiet ==
  /\ serve.pc = "select"
  /\ serve.hasState
  /\ changed(fs, serve.watch) = {<<>>}

\* C35: the watch baseline of Serve never holds file metadata newer than
\* the contents its output was generated from: whenever the next tick
\* would find no changed file, the output files are those of a generation
\* over the files as they are.
C35_BaselineNotNewerThanOutput ==
  WatchQuiet => (OutputCurrent(LoadedApp(fs)) /\ OutputCurrent(LoadedDep(fs)))

\* A file was written after Generate had read it and before serveStateFor
\* stat'ed it: the watch holds the new metadata, the next tick finds
\* nothing changed, and an output file is that of the old contents.
C35_Witness ==
  /\ WatchQuiet
  /\ edits > 0
  /\ serve.tick.attempt = "full"
  /\ ~serve.failed
  /\ ~OutputCurrent(LoadedApp(fs))

\* ------------------------------------------------------------------------
\* The watch command (cmd/wire/watch_cmd.go): runGenerate once, then the
\* fsnotify loop or, when fsnotify is unavailable, the polling loop.
\* ------------------------------------------------------------------------

\* Most runs of runGenerate one watch command is followed through.
MaxRuns == 4

\* Most changes other processes make to the tree while the command runs.
MaxChanges == 2

\* strings.HasSuffix
HasSuffix(s, suffix) ==
  /\ Len(s) >= Len(suffix)
  /\ SubSeq(s, Len(s) - Len(suffix) + 1, Len(s)) = suffix

\* strings.HasSuffix(name, ".go"): the file names of the tree that end in
\* .go are wire.go, extra.go, dep.go and every <prefix>wire_gen.go; go.mod
\* does not.
HasGoSuffix(p) ==
  \/ HasSuffix(p, WireGen)
  \/ p \in {AppWire, AppExtra, DepFile}

\* Prefixes of the output file name (-output_file_prefix).
OutputPrefixes == {<<>>, <<2>>}

\* os.Stat / d.Info of a file below the root: a source file of the tree or
\* a generated file, which carries the time of the run that wrote it.
WatchStat(tree, outs, stamps, p) ==
  IF p \in DOMAIN outs
  THEN [err |-> FALSE, Size |-> Len(outs[p]),
        ModTime |-> IF p \in DOMAIN stamps THEN stamps[p] ELSE 0]
  ELSE osStat(tree, p)

\* fileState of a file that exists.
FileStateOf(info) == [modTime |-> info.ModTime, size |-> info.Size]

\* scanGoFiles: the .go files below the root, without the generated ones.
scanGoFiles(tree, outs, stamps) ==
  LET walked == {p \in Paths : tree[p].exists} \cup DOMAIN outs
      kept == {p \in walked : HasGoSuffix(p) /\ ~HasSuffix(p, WireGen)}
  IN [p \in kept |-> FileStateOf(WatchStat(tree, outs, stamps, p))]

\* updateFileState: stat every path of the state; a path that is gone is
\* deleted from the state, a path whose time or size differs is updated.
\* Returns [changed, state].
updateFileState(state, tree, outs, stamps) ==
  LET info(p) == WatchStat(tree, outs, stamps, p)
      gone == {p \in DOMAIN state : info(p).err}
      differs == {p \in DOMAIN state \ gone : FileStateOf(info(p)) # state[p]}
  IN [changed |-> gone \cup differs,
      state |-> [p \in DOMAIN state \ gone |-> FileStateOf(info(p))]]

\* diffFileState: the paths that differ between two snapshots.
diffFileState(before, after) ==
  {p \in DOMAIN before : p \notin DOMAIN after \/ before[p] # after[p]}
    \cup {p \in DOMAIN after : p \notin DOMAIN before}

\* isWatchedGoFile: a .go file that is not a generated one.
isWatchedGoFile_AnyGoFile(p) == HasGoSuffix(p)

isWatchedGoFile(p) ==
  IF ~HasGoSuffix(p) THEN FALSE ELSE ~HasSuffix(p, WireGen)

\* The files one runGenerate writes: Generate over the tree, then Commit of
\* every result with content.  Nothing is written when Generate fails.
GeneratedFiles(tree, opts) ==
  LET l == load(tree, Wd, <<EnvA>>, opts.Tags, <<PatAll>>)
      made(pkg) == uncachedGenerate(tree, pkg, opts)
      withContent == {i \in DOMAIN l.pkgs :
                        /\ ~detectOutputDir(l.pkgs[i].GoFiles).err
                        /\ Len(made(l.pkgs[i]).Content) > 0}
  IN IF l.err THEN {}
     ELSE {[OutputPath |->
              OutputPathFor(detectOutputDir(l.pkgs[i].GoFiles).v, opts),
            Content |-> made(l.pkgs[i]).Content] : i \in withContent}

\* Execute up to the first runGenerate.
WatchExecute(prefix) ==
  /\ watch.pc = "off"
  /\ watch' = [watch EXCEPT !.pc = "gen", !.prefix = prefix,
                            !.after = "start", !.started = fs, !.runs = 1]
  /\ UNCHANGED <<fs, edits, bins, metas, manifests, gen, out, loads, prev,
                 snaps, faults, disk, writers, temps, renames, call,
                 cmdVars>>

\* runGenerate returns: its files are written; a watcher that exists
\* receives an event for each of them.
RunGenerateReturn ==
  /\ watch.pc = "gen"
  /\ \E written \in {GeneratedFiles(watch.started,
                       [DefaultOpts EXCEPT !.PrefixOutputFile = watch.prefix])} :
       LET paths == {w.OutputPath : w \in written}
           content(p) == (CHOOSE w \in written : w.OutputPath = p).Content
       IN /\ outputs' = [p \in DOMAIN outputs \cup paths |->
                           IF p \in paths THEN content(p) ELSE outputs[p]]
          /\ watch' = [watch EXCEPT
               !.pc = IF watch.after = "start" THEN "start"
                      ELSE IF watch.mode = "poll" THEN "scan" ELSE "select",
               !.stamps = [p \in DOMAIN watch.stamps \cup paths |->
                             IF p \in paths THEN watch.runs
                             ELSE watch.stamps[p]],
               !.events = IF watch.mode = "fsnotify"
                          THEN watch.events \cup paths ELSE watch.events]
  /\ UNCHANGED <<fs, edits, bins, metas, manifests, gen, out, loads, prev,
                 snaps, faults, disk, writers, temps, renames, call, last,
                 serve>>

\* watchWithFSNotify: either it starts watching, or it returns an error and
\* Execute falls back to polling.
WatchMode(available) ==
  /\ watch.pc = "start"
  /\ watch' = [watch EXCEPT
                 !.mode = IF available THEN "fsnotify" ELSE "poll",
                 !.pc = IF available THEN "select" ELSE "scan",
                 !.after = "loop"]
  /\ UNCHANGED <<fs, edits, bins, metas, manifests, gen, out, loads, prev,
                 snaps, faults, disk, writers, temps, renames, call,
                 cmdVars>>

\* state, err := scanGoFiles(root), before the loop and after each
\* runGenerate of the loop.
WatchScan ==
  /\ watch.pc = "scan"
  /\ watch' = [watch EXCEPT !.pc = "select",
                 !.state = scanGoFiles(fs, outputs, watch.stamps)]
  /\ UNCHANGED <<fs, edits, bins, metas, manifests, gen, out, loads, prev,
                 snaps, faults, disk, writers, temps, renames, call,
                 cmdVars>>

\* The loop starts a runGenerate.
StartRun(w, trigger) ==
  [w EXCEPT !.pc = "gen", !.started = fs, !.trigger = trigger,
            !.runs = w.runs + 1]

\* case <-pollTicker.C with a change found.
PollTick ==
  /\ watch.pc = "select"
  /\ watch.mode = "poll"
  /\ watch.runs < MaxRuns
  /\ LET upd == updateFileState(watch.state, fs, outputs, watch.stamps)
     IN /\ upd.changed # {}
        /\ watch' = StartRun([watch EXCEPT !.state = upd.state], upd.changed)
  /\ UNCHANGED <<fs, edits, bins, metas, manifests, gen, out, loads, prev,
                 snaps, faults, disk, writers, temps, renames, call,
                 cmdVars>>

\* case <-rescanTicker.C with a change found.
RescanTick ==
  /\ watch.pc = "select"
  /\ watch.mode = "poll"
  /\ watch.runs < MaxRuns
  /\ LET newState == scanGoFiles(fs, outputs, watch.stamps)
         diff == diffFileState(watch.state, newState)
     IN /\ diff # {}
        /\ watch' = StartRun([watch EXCEPT !.state = newState], diff)
  /\ UNCHANGED <<fs, edits, bins, metas, manifests, gen, out, loads, prev,
                 snaps, faults, disk, writers, temps, renames, call,
                 cmdVars>>

\* case event := <-watcher.Events: a watched Go file is noted as changed
\* and the timer is reset; every other name is dropped.
WatchEvent(name) ==
  /\ watch.pc = "select"
  /\ watch.mode = "fsnotify"
  /\ name \in watch.events
  /\ watch' = [watch EXCEPT
                 !.events = watch.events \ {name},
                 !.changed = IF isWatchedGoFile(name)
                             THEN watch.changed \cup {name}
                             ELSE watch.changed]
  /\ UNCHANGED <<fs, edits, bins, metas, manifests, gen, out, loads, prev,
                 snaps, faults, disk, writers, temps, renames, call,
                 cmdVars>>

\* case <-timer.C with changed paths: onChange.
WatchTimer ==
  /\ watch.pc = "select"
  /\ watch.mode = "fsnotify"
  /\ watch.changed # {}
  /\ watch.runs < MaxRuns
  /\ watch' = StartRun([watch EXCEPT !.changed = {}], watch.changed)
  /\ UNCHANGED <<fs, edits, bins, metas, manifests, gen, out, loads, prev,
                 snaps, faults, disk, writers, temps, renames, call,
                 cmdVars>>

\* case err := <-watcher.Errors: watchWithFSNotify returns the error and
\* Execute falls back to polling; what the watcher held is lost.
WatcherError ==
  /\ watch.pc = "select"
  /\ watch.mode = "fsnotify"
  /\ watch' = [watch EXCEPT !.mode = "poll", !.pc = "scan",
                            !.events = {}, !.changed = {}]
  /\ UNCHANGED <<fs, edits, bins, metas, manifests, gen, out, loads, prev,
                 snaps, faults, disk, writers, temps, renames, call,
                 cmdVars>>

\* Another process writes or removes a source file below the root while
\* the command runs; a watcher that exists receives the event.
ExternalChange(p, file) ==
  /\ watch.pc # "off"
  /\ edits < MaxChanges
  /\ file # fs[p]
  /\ fs' = [fs EXCEPT ![p] = file]
  /\ edits' = edits + 1
  /\ watch' = [watch EXCEPT
                 !.events = IF watch.mode = "fsnotify"
                            THEN watch.events \cup {p} ELSE watch.events]
  /\ UNCHANGED <<bins, metas, manifests, gen, out, loads, prev, snaps,
                 faults, disk, writers, temps, renames, call, cmdVars>>

ExternalWrite(p, d) ==
  /\ d \in FileData
  /\ ExternalChange(p, [exists |-> TRUE, data |-> d, mtime |-> edits + 1])

ExternalRemove(p) == fs[p].exists /\ ExternalChange(p, NoFile)

NextWatch ==
  \/ \E prefix \in OutputPrefixes : WatchExecute(prefix)
  \/ RunGenerateReturn
  \/ \E available \in BOOLEAN : WatchMode(available)
  \/ WatchScan
  \/ PollTick
  \/ RescanTick
  \/ \E name \in Paths \cup {OutputPathFor(dir, [DefaultOpts EXCEPT
                               !.PrefixOutputFile = prefix]) :
                              dir \in {Dir(AppWire), Dir(DepFile)},
                              prefix \in OutputPrefixes} : WatchEvent(name)
  \/ WatchTimer
  \/ WatcherError
  \/ \E p \in Paths, d \in FileData : ExternalWrite(p, d)
  \/ \E p \in Paths : ExternalRemove(p)

SpecWatch == Init /\ [][NextWatch]_vars

\* The Go files the watch is about, as the loop can tell them apart.
WatchView(tree) == scanGoFiles(tree, <<>>, <<>>)

\* C36: in the polling path every change of a watched file's time, size or
\* existence leads to a runGenerate that starts after the change: when the
\* loop waits in its select with a snapshot that matches the tree, so that
\* no tick will find a change, the last runGenerate started on the tree as
\* it is now.
C36_PollChangeLeadsToRun ==
  (/\ watch.mode = "poll"
   /\ watch.pc = "select"
   /\ watch.state = scanGoFiles(fs, outputs, watch.stamps))
    => WatchView(watch.started) = WatchView(fs)

\* A change was made while runGenerate ran, and the loop is back in its
\* select with a snapshot that matches the tree.
C36_Witness ==
  /\ watch.mode = "poll"
  /\ watch.pc = "select"
  /\ watch.runs >= 2
  /\ watch.after = "loop"
  /\ watch.state = scanGoFiles(fs, outputs, watch.stamps)
  /\ WatchView(watch.started) # WatchView(fs)

\* C39: writing generated output never by itself causes another
\* regeneration in the watch command: no <prefix>wire_gen.go is ever in the
\* polling snapshot, among the paths the fsnotify loop holds as changed, or
\* among the paths that set off a runGenerate, and after the first
\* runGenerate there is at most one further runGenerate per change made by
\* another process.
C39_OutputNeverRetriggers ==
  /\ \A p \in DOMAIN watch.state \cup watch.changed \cup watch.trigger :
       ~HasSuffix(p, WireGen)
  /\ watch.runs <= edits + 1

\* A runGenerate of the fsnotify loop has written a prefixed output file,
\* the loop has taken every event of it, and no runGenerate is pending.
C39_Witness ==
  /\ watch.mode = "fsnotify"
  /\ watch.pc = "select"
  /\ watch.prefix # <<>>
  /\ watch.runs >= 2
  /\ \E p \in DOMAIN outputs : watch.stamps[p] = watch.runs
  /\ watch.events = {}
  /\ watch.changed = {}

\* The same in the polling loop: the file was written by the last
\* runGenerate and the snapshot taken after it matches the tree.
C39_WitnessPoll ==
  /\ watch.mode = "poll"
  /\ watch.pc = "select"
  /\ watch.runs >= 2
  /\ \E p \in DOMAIN outputs : watch.stamps[p] = watch.runs
  /\ updateFileState(watch.state, fs, outputs, watch.stamps).changed = {}

\* ------------------------------------------------------------------------
\* Serve: the extra files under watch
\* ------------------------------------------------------------------------

\* The paths Serve has under watch.
WatchedPaths == {serve.watch[i].Path : i \in DOMAIN serve.watch}

\* C37: after any sequence of ticks Serve's watch state covers every
\* ExtraFile of its manifest: whenever Serve waits in its select with a
\* state built from a manifest, each extra file of that manifest is among
\* the watched files.
C37_WatchCoversExtraFiles ==
  (serve.pc = "select" /\ serve.hasState /\ serve.fromManifest)
    => \A i \in DOMAIN serve.manifest.ExtraFiles :
         serve.manifest.ExtraFiles[i].Path \in WatchedPaths

\* A tick has regenerated the owning packages and rebuilt the watch; the
\* manifest has an extra file that is no longer watched.
C37_Witness ==
  /\ serve.pc = "select"
  /\ serve.hasState
  /\ serve.fromManifest
  /\ serve.tick.plan = "packages"
  /\ Len(serve.tick.done) > 0
  /\ \E i \in DOMAIN serve.manifest.ExtraFiles :
       serve.manifest.ExtraFiles[i].Path \notin WatchedPaths

\* ------------------------------------------------------------------------
\* Serve: buildWatchState fails on a directory
\* ------------------------------------------------------------------------

\* serveStateFor when os.Stat of a directory fails inside buildWatchState:
\* serveStateFromManifest keeps the state and gives it a nil watch, the
\* path of the loaded packages returns the error.
\* Returns [err, fromManifest, manifest, watch, watchNil].
serveStateForStatFails(tree, manifestFiles, params) ==
  LET st == serveStateFor(tree, manifestFiles, params)
  IN [err |-> st.err \/ ~st.fromManifest,
      fromManifest |-> st.fromManifest,
      manifest |-> st.manifest,
      watch |-> <<>>,
      watchNil |-> st.fromManifest]

\* Serve takes the state serveStateFor returned although a directory could
\* not be stat'ed.
WithStateStatFails(sv, st) ==
  IF st.err THEN sv
  ELSE [sv EXCEPT !.hasState = TRUE, !.fromManifest = st.fromManifest,
                  !.manifest = st.manifest, !.watch = st.watch,
                  !.watchNil = st.watchNil]

\* Serve is called and a directory of a watched file cannot be stat'ed.
ServeCallStatFails(params) ==
  /\ serve.pc = "off"
  /\ gen.pc = "idle"
  /\ loads < MaxLoads
  /\ \E st \in {serveStateForStatFails(fs, manifests, params)} :
       /\ serve' = [WithStateStatFails([NoServe EXCEPT !.pc = "call",
                                                       !.params = params],
                                       st)
                      EXCEPT !.retry = st.err, !.failed = st.err]
  /\ out' = NoOut
  /\ UNCHANGED <<storeVars, outputs, last>>
  /\ UNCHANGED <<fs, edits, bins, metas, manifests, gen, loads, prev,
                 snaps, faults>>

\* The end of a full tick when a directory of a watched file cannot be
\* stat'ed in the serveStateFor that follows generateAndCommit.
ServeCommitStatFails ==
  /\ serve.pc = "full"
  /\ gen.pc = "idle"
  /\ out.kind \in {"results", "errors"}
  /\ \E c \in {generateAndCommit(out.kind = "errors", out.results, outputs,
                                 TRUE)} :
       /\ outputs' = c.files
       /\ \E st \in {serveStateForStatFails(fs, manifests, serve.params)} :
            \E err \in {c.exit # ExitSuccess \/ st.err} :
              /\ serve' = [WithStateStatFails(serve, st) EXCEPT
                             !.pc = "select",
                             !.failed = @ \/ err,
                             !.retry = @ \/ (serve.tick.plan = "fullRetry"
                                             /\ err),
                             !.tick.attempt = "full"]
  /\ out' = NoOut
  /\ UNCHANGED <<storeVars, last>>
  /\ UNCHANGED <<fs, edits, bins, metas, manifests, gen, loads, prev,
                 snaps, faults>>

\* The ticker fires while the state has a nil watch: state.watch.changed
\* reads ws.files through the nil pointer and the goroutine panics.
TickNilWatch ==
  /\ serve.pc = "select"
  /\ gen.pc = "idle"
  /\ serve.hasState
  /\ serve.watchNil
  /\ serve' = [serve EXCEPT !.pc = "panic"]
  /\ UNCHANGED <<storeVars, outputs, last>>
  /\ UNCHANGED <<fs, edits, bins, metas, manifests, gen, out, loads, prev,
                 snaps, faults>>

NextStat ==
  \/ \E p \in Paths, d \in FileData : ModifyFile(p, d)
  \/ ServeCall(ServeParams)
  \/ ServeCallStatFails(ServeParams)
  \/ \E unknown \in BOOLEAN, early \in BOOLEAN : Tick(unknown, early)
  \/ TickNilWatch
  \/ ServeGenerate
  \/ GenPackage("none")
  \/ GenFinish("none")
  \/ ServeCommit
  \/ ServeCommitStatFails

\* Serve with a failing directory stat as one more outcome of serveStateFor.
\* A tick that takes the package-by-package path is followed up to its
\* start: rebuildWatch keeps the watch it has when buildWatchState fails.
SpecStat == Init /\ [][NextStat]_vars

\* C38: Serve never calls changed on a nil watch state: whenever Serve is
\* at its select with a state, the watch of the state is not nil, also
\* after buildWatchState failed inside serveStateFromManifest.
C38_WatchNeverNil ==
  (serve.pc = "select" /\ serve.hasState) => ~serve.watchNil

\* A tick has called changed on the nil watch of a state built from the
\* manifest.
C38_Witness ==
  /\ serve.pc = "panic"
  /\ serve.hasState
  /\ serve.fromManifest
  /\ serve.watchNil

\* ------------------------------------------------------------------------
\* main (cmd/wire): the choice of the subcommand
\* ------------------------------------------------------------------------

\* Most command-line arguments after the flags.
MaxArgs == 2

\* The commands main registers with the commander: the three builtins and
\* check, cache, diff, gen, show.
Registered ==
  {"commands", "flags", "help", "check", "cache", "diff", "gen", "show"}

\* The hardcoded map of names main takes for subcommands.
allCmds ==
  {"commands", "help", "flags", "check", "cache", "diff", "gen", "serve",
   "show"}

\* The subcommands cmd/wire implements: each has Name, SetFlags, Execute.
Implemented == {"check", "cache", "diff", "gen", "show", "serve", "watch"}

\* Words on the command line: command names and a package pattern.
ArgWords == Registered \cup allCmds \cup Implemented \cup {"./app"}

ArgLists == UNION {[1..n -> ArgWords] : n \in 0..MaxArgs}

\* packages: the arguments, "." when there are none.
packages(args) == IF Len(args) = 0 THEN <<".">> ELSE args

\* subcommands.Execute: the registered command of that name is executed
\* with the remaining arguments; for any other name the usage is printed
\* and the exit status is ExitUsageError.
subcommandsExecute(args) ==
  IF Len(args) > 0 /\ args[1] \in Registered
  THEN [ran |-> args[1], patterns |-> packages(Tail(args))]
  ELSE [ran |-> "usage", patterns |-> <<>>]

\* main after flag.Parse: gen over all arguments unless the first names a
\* command of allCmds, else subcommands.Execute.
\* Returns the command whose Execute runs and the patterns it sees.
mainDispatch(args) ==
  IF Len(args) = 0 \/ args[1] \notin allCmds
  THEN [ran |-> "gen", patterns |-> packages(args)]
  ELSE subcommandsExecute(args)

\* The process starts with these arguments.
MainCall(args) ==
  /\ call = NoCall
  /\ call' = [fn |-> "main", pc |-> "parsed", args |-> args, ran |-> "",
              patterns |-> <<>>]
  /\ UNCHANGED programVars

\* main runs the command it chose and exits with its status.
MainRun ==
  /\ call.fn = "main"
  /\ call.pc = "parsed"
  /\ call' = [call EXCEPT !.pc = "done",
                          !.ran = mainDispatch(call.args).ran,
                          !.patterns = mainDispatch(call.args).patterns]
  /\ UNCHANGED programVars

NextMain ==
  \/ \E args \in ArgLists : MainCall(args)
  \/ MainRun

SpecMain == Init /\ [][NextMain]_vars

MainDone == call.fn = "main" /\ call.pc = "done"

\* C40: every subcommand implemented in cmd/wire (check, cache, diff, gen,
\* show, serve, watch) is dispatched to its own Execute, with the remaining
\* arguments as its patterns, when it is named as the first argument; a
\* builtin of the commander is run when it is named; any other first
\* argument, or none, runs gen with all arguments as patterns ("." when
\* there are none).
C40_SubcommandsDispatched ==
  MainDone =>
    IF Len(call.args) > 0 /\ call.args[1] \in Implemented
    THEN /\ call.ran = call.args[1]
         /\ call.patterns = packages(Tail(call.args))
    ELSE IF Len(call.args) > 0 /\ call.args[1] \in Registered
    THEN call.ran = call.args[1]
    ELSE /\ call.ran = "gen"
         /\ call.patterns = packages(call.args)

\* "wire watch ./app" has run gen with the patterns "watch" and "./app".
C40_Witness ==
  /\ MainDone
  /\ call.args = <<"watch", "./app">>
  /\ call.ran = "gen"
  /\ call.patterns = <<"watch", "./app">>

\* "wire serve ./app" has been answered with the usage of the commander.
C40_WitnessServe ==
  /\ MainDone
  /\ call.args = <<"serve", "./app">>
  /\ call.ran = "usage"

====
